---- MODULE Spec2Model ----
(***************************************************************************)
(* Verification model of the purchase-analysis engine                      *)
(* (analisis_core.py, analisis_cliente.py).                                *)
(*                                                                         *)
(* Tables (pandas DataFrames) are sequences of records, one record per row.*)
(* Real numbers are exact fractions [n |-> numerator, d |-> denominator]   *)
(* with d > 0; a standard deviation is carried by its square (the sample   *)
(* variance).  Dates are records [y, m, d]; NaT is the missing timestamp.  *)
(***************************************************************************)
EXTENDS Integers, Sequences, FiniteSets, TLC

VARIABLES
    pc,             \* position of the running call
    ventas_df,      \* raw sales table handed to the engine
    inventario_df,  \* raw inventory table handed to the engine
    hoy,            \* wall-clock date read by pd.Timestamp.today()
    params,         \* keyword parameters of analizar
    ventas,         \* result of preparar_ventas_df
    inv,            \* result of preparar_inventario_df
    pivot_qty,      \* quantity pivot, window columns added
    pivot_ing,      \* revenue pivot, window columns added
    ingresos_12m,   \* value table fed to the ABC classification
    df_valor,       \* result of clasificar_abc
    clientes_agg,   \* result of clasificar_abc_clientes
    series,         \* local Series of analizar (unrounded)
    resumen,        \* product table built by analizar
    error,          \* exception raised by the call (SinError when none)
    umbrales,       \* the XYZ threshold sliders of the app
    ventas_12m,     \* analizar_clientes: the retained transactions (ventas_detalle)
    configuracion,  \* analizar_clientes: the column names it is told to use
    cliente,        \* analizar_productos_cliente: the customer asked for
    analisis_general,   \* analizar_productos_cliente: the product table handed in
    productos_cliente,  \* the table analizar_productos_cliente returns
    alertas         \* the result of identificar_alertas_cliente

\* What the caller hands to the engine.
entradas == <<ventas_df, inventario_df, hoy, params>>

\* Locals of analizar.
locales == <<ventas, inv, pivot_qty, pivot_ing, series, ingresos_12m, df_valor, resumen>>

detalle == <<configuracion, cliente, analisis_general, productos_cliente, alertas>>

vars == <<pc, entradas, locales, clientes_agg, error, umbrales, ventas_12m, detalle>>

-----------------------------------------------------------------------------
(* Bounds of the model *)

MaxFilas == 2
MaxEntidades == 3
MaxExtra == 1
MaxFilasCliente == 2
MaxFilasConfiguracion == 1
MaxFilasAlertas == 2
MaxFilasDetalle == 2

-----------------------------------------------------------------------------
(* Generic helpers on sequences *)

Rango(s) == {s[i] : i \in 1..Len(s)}

SeqsHasta(S, n) == UNION {[1..k -> S] : k \in 0..n}

RECURSIVE SumaSeq(_)
SumaSeq(s) == IF s = <<>> THEN 0 ELSE Head(s) + SumaSeq(Tail(s))

\* (s > 0).sum(): how many entries are positive
ContarPositivos(s) == Len(SelectSeq(s, LAMBDA x : x > 0))

-----------------------------------------------------------------------------
(* Exact fractions standing for the floating point columns *)

RECURSIVE Mcd(_, _)
Mcd(a, b) == IF b = 0 THEN a ELSE Mcd(b, a % b)

Abs(k) == IF k < 0 THEN -k ELSE k

\* a / b with b # 0, in lowest terms and with a positive denominator.
Frac(a, b) ==
    LET g == Mcd(Abs(a), Abs(b))
        s == IF b < 0 THEN -1 ELSE 1
    IN [n |-> s * (a \div g), d |-> s * (b \div g)]

FracDeEntero(k) == [n |-> k, d |-> 1]

Cero == FracDeEntero(0)

FracSuma(a, b) == Frac(a.n * b.d + b.n * a.d, a.d * b.d)

FracResta(a, b) == Frac(a.n * b.d - b.n * a.d, a.d * b.d)

FracMul(a, b) == Frac(a.n * b.n, a.d * b.d)

FracDiv(a, b) == Frac(a.n * b.d, a.d * b.n)

FracMenor(a, b) == a.n * b.d < b.n * a.d

FracMenorIgual(a, b) == a.n * b.d <= b.n * a.d

FracIgual(a, b) == a.n * b.d = b.n * a.d

-----------------------------------------------------------------------------
(* DEFAULTS: the module-level parameter dictionary *)

DEFAULTS ==
    [LEAD_TIME_DIAS    |-> 4,
     COBERTURA_MESES   |-> FracDeEntero(1),
     VENTA_DIAS_SEMANA |-> 6,
     XYZ_UMBRAL_X      |-> Frac(30, 100),
     XYZ_UMBRAL_Y      |-> Frac(60, 100)]

-----------------------------------------------------------------------------
(* Timestamps *)

NaT == [y |-> 0, m |-> 0, d |-> 0]

EsBisiesto(y) == (y % 4 = 0 /\ y % 100 # 0) \/ y % 400 = 0

DiasDelMes(m, y) ==
    IF m \in {4, 6, 9, 11} THEN 30
    ELSE IF m = 2 THEN (IF EsBisiesto(y) THEN 29 ELSE 28)
    ELSE 31

\* pd.to_datetime(..., dayfirst=True, errors="coerce") on one cell "dd/mm/yyyy":
\* a text that is no calendar date becomes NaT.
ToDatetime(f) ==
    IF f.m \in 1..12 /\ f.d >= 1 /\ f.d <= DiasDelMes(f.m, f.y)
    THEN [y |-> f.y, m |-> f.m, d |-> f.d]
    ELSE NaT

\* .dt.to_period("M").dt.to_timestamp(): first day of the month, NaT stays NaT.
InicioDeMes(ts) == IF ts = NaT THEN NaT ELSE [y |-> ts.y, m |-> ts.m, d |-> 1]

MesIdx(ts) == ts.y * 12 + (ts.m - 1)

MesDeIdx(k) == [y |-> k \div 12, m |-> (k % 12) + 1, d |-> 1]

FechaMenor(a, b) ==
    \/ a.y < b.y
    \/ a.y = b.y /\ a.m < b.m
    \/ a.y = b.y /\ a.m = b.m /\ a.d < b.d

-----------------------------------------------------------------------------
(* Numeric cells: pd.to_numeric(..., errors="coerce").fillna(0) *)

Celda(k) == [num |-> TRUE, v |-> k]

CeldaMala == [num |-> FALSE, v |-> 0]

ToNumeric(c) == IF c.num THEN [nan |-> FALSE, v |-> c.v] ELSE [nan |-> TRUE, v |-> 0]

FillNaUno(x) == IF x.nan THEN 1 ELSE x.v

\* fillna(0)
FillNa0(x) == IF x.nan THEN 0 ELSE x.v

\* A balance cell: balances may carry decimals (goods sold by weight).
CeldaSaldo(f) == [num |-> TRUE, v |-> f]

CeldaSaldoMala == [num |-> FALSE, v |-> Cero]

FillNaCero(x) == IF x.nan THEN Cero ELSE x.v

-----------------------------------------------------------------------------
(* preparar_ventas_df *)

ColumnasVentas == {"COD_PROD", "Fecha", "Cantidad", "PRECIO_DESCUENTO"}

\* Lines 25-33: the coerced copy with the derived columns Mes and Ingreso.
VentasCoercionadas(df) ==
    [i \in 1..Len(df) |->
        LET cant == FillNa0(ToNumeric(df[i].Cantidad))
            prec == FillNa0(ToNumeric(df[i].PRECIO_DESCUENTO))
            fec  == ToDatetime(df[i].Fecha)
        IN [COD_PROD |-> df[i].COD_PROD,
            Fecha    |-> fec,
            Cantidad |-> cant,
            PRECIO_DESCUENTO |-> prec,
            Mes      |-> InicioDeMes(fec),
            Ingreso  |-> cant * prec]]

AlgunaFechaNaT(out) == \E i \in 1..Len(out) : out[i].Fecha = NaT

\* out["Fecha"].isna().all()
TodasFechasNaT(out) == \A i \in 1..Len(out) : out[i].Fecha = NaT

ClaveMenor(a, b) ==
    \/ a.COD_PROD < b.COD_PROD
    \/ a.COD_PROD = b.COD_PROD /\ FechaMenor(a.Mes, b.Mes)

\* Keys of groupby(["COD_PROD", "Mes"]): rows with a missing key are dropped.
ClavesGrupo(out) ==
    {[COD_PROD |-> out[i].COD_PROD, Mes |-> out[i].Mes] :
        i \in {j \in 1..Len(out) : out[j].Mes # NaT}}

RECURSIVE OrdenarClaves(_)
OrdenarClaves(S) ==
    IF S = {} THEN <<>>
    ELSE LET k == CHOOSE x \in S : \A z \in S \ {x} : ClaveMenor(x, z)
         IN <<k>> \o OrdenarClaves(S \ {k})

RECURSIVE SumaCampo(_, _, _)
SumaCampo(out, k, campo) ==
    IF out = <<>> THEN 0
    ELSE (IF Head(out).COD_PROD = k.COD_PROD /\ Head(out).Mes = k.Mes
          THEN Head(out)[campo] ELSE 0)
         + SumaCampo(Tail(out), k, campo)

\* Lines 35-38: groupby(...).agg(sum), one row per key, keys in sorted order.
AgruparVentasUltimo(out) ==
    LET claves == OrdenarClaves(ClavesGrupo(out))
        ult(k) == CHOOSE i \in 1..Len(out) :
                     /\ out[i].COD_PROD = k.COD_PROD /\ out[i].Mes = k.Mes
                     /\ \A j \in (i + 1)..Len(out) :
                            ~(out[j].COD_PROD = k.COD_PROD /\ out[j].Mes = k.Mes)
    IN [i \in 1..Len(claves) |->
           [COD_PROD |-> claves[i].COD_PROD,
            Mes      |-> claves[i].Mes,
            Cantidad |-> out[ult(claves[i])].Cantidad,
            Ingreso  |-> out[ult(claves[i])].Ingreso]]

AgruparVentas(out) ==
    LET claves == OrdenarClaves(ClavesGrupo(out))
    IN [i \in 1..Len(claves) |->
           [COD_PROD |-> claves[i].COD_PROD,
            Mes      |-> claves[i].Mes,
            Cantidad |-> SumaCampo(out, claves[i], "Cantidad"),
            Ingreso  |-> SumaCampo(out, claves[i], "Ingreso")]]

PrepararVentasDf(df) == AgruparVentas(VentasCoercionadas(df))

\* An exception: its type and the column names its message holds.
Excepcion(tipo, nombra) == [tipo |-> tipo, nombra |-> nombra]

SinError == Excepcion("", {})

\* df.columns; a table without rows has the header given.
ColumnasDe(df, cabecera) == IF df = <<>> THEN cabecera ELSE DOMAIN df[1]

\* Lines 21-23 and 29-30: the exception preparar_ventas_df raises, if any.
ErrorVentas(df) ==
    IF ~(ColumnasVentas \subseteq ColumnasDe(df, ColumnasVentas))
    THEN Excepcion("ValueError", ColumnasVentas)
    ELSE IF TodasFechasNaT(VentasCoercionadas(df))
         THEN Excepcion("ValueError", {"Fecha"})
         ELSE SinError

-----------------------------------------------------------------------------
(* Input domains *)

Productos == {101, 102}

FechasCrudas ==
    { [d |-> 5,  m |-> 2,  y |-> 2024],
      [d |-> 20, m |-> 2,  y |-> 2024],
      [d |-> 3,  m |-> 1,  y |-> 2025],
      [d |-> 15, m |-> 1,  y |-> 2025],
      [d |-> 31, m |-> 2,  y |-> 2025] }   \* no such day: unparseable

CeldasCantidad == {Celda(-1), Celda(2), CeldaMala}

CeldasPrecio == {Celda(3), CeldaMala}

FilasCrudas ==
    [COD_PROD : Productos, Fecha : FechasCrudas,
     Cantidad : CeldasCantidad, PRECIO_DESCUENTO : CeldasPrecio]

Vacio == <<>>

\* Slider positions that give the thresholds of par.
UmbralesDe(par) == [x_th |-> par.XYZ_UMBRAL_X, y_th |-> par.XYZ_UMBRAL_Y]

SinSeries == [last12 |-> <<>>]

\* Lines 59-68: the column names used when no configuration is given.
ConfiguracionPredeterminada ==
    [NOM_CLIENTE |-> "NOM_CLIENTE", COD_PROD |-> "COD_PROD", CANTIDAD |-> "Cantidad",
     PRECIO_DESCUENTO |-> "PRECIO_DESCUENTO", FECHA |-> "Fecha"]

\* analisis_general=None
Ninguno == [hay |-> FALSE, tabla |-> <<>>]

\* Lines 265-270: the alerts before any product is examined.
SinAlertas ==
    [productos_criticos |-> <<>>, productos_riesgo |-> <<>>,
     count_criticos |-> 0, count_riesgo |-> 0]

\* The customer functions have not been called.
SinDetalle ==
    /\ configuracion = ConfiguracionPredeterminada
    /\ cliente = <<>>
    /\ analisis_general = Ninguno
    /\ productos_cliente = Vacio
    /\ alertas = SinAlertas

SinPivot == [index |-> <<>>, columns |-> <<>>, data |-> <<>>]

-----------------------------------------------------------------------------
(* Specification of preparar_ventas_df alone, on raw tables *)

InitVentas ==
    /\ pc = "inicio"
    /\ ventas_df \in SeqsHasta(FilasCrudas, MaxFilas)
    /\ inventario_df = Vacio
    /\ hoy = NaT
    /\ params = DEFAULTS
    /\ ventas = Vacio
    /\ inv = Vacio
    /\ pivot_qty = SinPivot
    /\ pivot_ing = SinPivot
    /\ ingresos_12m = Vacio
    /\ df_valor = Vacio
    /\ clientes_agg = Vacio
    /\ series = SinSeries
    /\ resumen = Vacio
    /\ error = SinError
    /\ umbrales = UmbralesDe(DEFAULTS)
    /\ ventas_12m = Vacio
    /\ SinDetalle

\* preparar_ventas_df returns the aggregated table.
PrepararVentasOk ==
    /\ pc = "inicio"
    /\ ErrorVentas(ventas_df) = SinError
    /\ ventas' = PrepararVentasDf(ventas_df)
    /\ pc' = "ventas_listas"
    /\ UNCHANGED <<detalle, umbrales, ventas_12m, entradas, inv, pivot_qty, pivot_ing, series, ingresos_12m,
                   df_valor, resumen, clientes_agg, error>>

\* preparar_ventas_df raises: no date could be interpreted.
PrepararVentasFalla ==
    /\ pc = "inicio"
    /\ ErrorVentas(ventas_df) # SinError
    /\ error' = ErrorVentas(ventas_df)
    /\ pc' = "error"
    /\ UNCHANGED <<detalle, umbrales, ventas_12m, entradas, locales, clientes_agg>>

NextVentas == PrepararVentasOk \/ PrepararVentasFalla

SpecVentas == InitVentas /\ [][NextVentas]_vars

-----------------------------------------------------------------------------
(* clasificar_abc (analisis_core.py) and clasificar_abc_clientes            *)
(* (analisis_cliente.py)                                                    *)

Permutaciones(n) ==
    {f \in [1..n -> 1..n] : \A i, j \in 1..n : i # j => f[i] # f[j]}

\* sort_values(..., ascending=False) with the default (unstable) quicksort:
\* any arrangement in which the values do not increase.
EsOrdenAscendente(vals, f) ==
    \A i, j \in 1..Len(vals) : i < j => vals[f[i]] <= vals[f[j]]

EsOrdenDescendente(vals, f) ==
    \A i, j \in 1..Len(vals) : i < j => vals[f[i]] >= vals[f[j]]

OrdenesPosibles(vals) ==
    {f \in Permutaciones(Len(vals)) : EsOrdenDescendente(vals, f)}

ParticipacionPorciento(v, total) == IF total > 0 THEN Frac(v * 100, total) ELSE Cero

\* (ValorConsumo / total) if total > 0 else 0
Participacion(v, total) == IF total > 0 THEN Frac(v, total) ELSE Cero

RECURSIVE SumaFracs(_)
SumaFracs(s) == IF s = <<>> THEN Cero ELSE FracSuma(Head(s), SumaFracs(Tail(s)))

SinAcumular(s) == s

\* Series.cumsum()
CumSum(s) == [i \in 1..Len(s) |-> SumaFracs(SubSeq(s, 1, i))]

UmbralA == Frac(80, 100)

UmbralB == Frac(95, 100)

EtiquetaEstricta(p) ==
    IF FracMenor(p, UmbralA) THEN "A"
    ELSE IF FracMenor(p, UmbralB) THEN "B"
    ELSE "C"

\* etiqueta(p) of clasificar_abc
Etiqueta(p) ==
    IF FracMenorIgual(p, UmbralA) THEN "A"
    ELSE IF FracMenorIgual(p, UmbralB) THEN "B"
    ELSE "C"

ClasificarEstricto(p) ==
    IF FracMenor(p, UmbralA) THEN "A"
    ELSE IF FracMenor(p, UmbralB) THEN "B"
    ELSE "C"

\* clasificar(p) of clasificar_abc_clientes
Clasificar(p) ==
    IF FracMenorIgual(p, UmbralA) THEN "A"
    ELSE IF FracMenorIgual(p, UmbralB) THEN "B"
    ELSE "C"

\* pd.DataFrame({"COD_PROD": ingresos_12m.index, "ValorConsumo": ingresos_12m.values})
TablaValor(serie) ==
    [i \in 1..Len(serie) |-> [COD_PROD |-> serie[i].id, ValorConsumo |-> serie[i].valor]]

\* The customer aggregate, reduced to the columns the classification reads.
TablaClientes(serie) ==
    [i \in 1..Len(serie) |->
        [NOM_CLIENTE |-> serie[i].id, VALOR_TOTAL_12M |-> serie[i].valor]]

\* clasificar_abc, with f the row order the sort produced.
ClasificarAbc(t, f) ==
    LET vals  == [i \in 1..Len(t) |-> t[i].ValorConsumo]
        total == SumaSeq(vals)
        ord   == [i \in 1..Len(t) |-> t[f[i]]]
        part  == [i \in 1..Len(t) |-> Participacion(ord[i].ValorConsumo, total)]
        acum  == CumSum(part)
    IN [i \in 1..Len(t) |->
           [COD_PROD          |-> ord[i].COD_PROD,
            ValorConsumo      |-> ord[i].ValorConsumo,
            Participacion     |-> part[i],
            ParticipacionAcum |-> acum[i],
            ABC               |-> Etiqueta(acum[i])]]

\* clasificar_abc_clientes, with f the row order the sort produced.
ClasificarAbcClientes(t, f) ==
    LET vals  == [i \in 1..Len(t) |-> t[i].VALOR_TOTAL_12M]
        total == SumaSeq(vals)
        ord   == [i \in 1..Len(t) |-> t[f[i]]]
        part  == [i \in 1..Len(t) |-> Participacion(ord[i].VALOR_TOTAL_12M, total)]
        acum  == CumSum(part)
    IN [i \in 1..Len(t) |->
           [PARTICIPACION      |-> part[i],
            PARTICIPACION_ACUM |-> acum[i],
            ABC_CLIENTE        |-> Clasificar(acum[i])] @@ ord[i]]

\* Line 122: clientes_agg["RANKING"] = range(1, len(clientes_agg) + 1)
ConRanking(t) == [i \in 1..Len(t) |-> [RANKING |-> i] @@ t[i]]

\* Lines 118-122 on the aggregate agg, with f the row order the sort produced.
ResumenClientes(agg, f) == ConRanking(ClasificarAbcClientes(agg, f))

\* Values a caller can feed: each is a sum of quantity x price, and quantities
\* of either sign occur (returns), so negative and zero values are included.
Valores == {-3, 0, 1, 4, 5, 15, 80}

SeriesDeValor ==
    {[i \in 1..Len(v) |-> [id |-> 100 + i, valor |-> v[i]]] :
        v \in SeqsHasta(Valores, MaxEntidades)}

ValoresDe(serie) == [i \in 1..Len(serie) |-> serie[i].valor]

InitABC ==
    /\ pc = "inicio"
    /\ ingresos_12m \in SeriesDeValor
    /\ ventas_df = Vacio
    /\ inventario_df = Vacio
    /\ hoy = NaT
    /\ params = DEFAULTS
    /\ ventas = Vacio
    /\ inv = Vacio
    /\ pivot_qty = SinPivot
    /\ pivot_ing = SinPivot
    /\ df_valor = Vacio
    /\ clientes_agg = Vacio
    /\ series = SinSeries
    /\ resumen = Vacio
    /\ error = SinError
    /\ umbrales = UmbralesDe(DEFAULTS)
    /\ ventas_12m = Vacio
    /\ SinDetalle

\* A call of clasificar_abc on the value table.
LlamarClasificarAbc ==
    /\ pc \in {"inicio", "abc_clientes"}
    /\ \E f \in OrdenesPosibles(ValoresDe(ingresos_12m)) :
          df_valor' = ClasificarAbc(TablaValor(ingresos_12m), f)
    /\ pc' = IF pc = "inicio" THEN "abc" ELSE "abc_ambos"
    /\ UNCHANGED <<detalle, umbrales, ventas_12m, entradas, ventas, inv, pivot_qty, pivot_ing, series, ingresos_12m,
                   resumen, clientes_agg, error>>

\* Lines 118-122 of analizar_clientes on the same values: the call of
\* clasificar_abc_clientes, then the ranking.
LlamarClasificarAbcClientes ==
    /\ pc \in {"inicio", "abc"}
    /\ \E f \in OrdenesPosibles(ValoresDe(ingresos_12m)) :
          clientes_agg' = ResumenClientes(TablaClientes(ingresos_12m), f)
    /\ pc' = IF pc = "inicio" THEN "abc_clientes" ELSE "abc_ambos"
    /\ UNCHANGED <<detalle, umbrales, ventas_12m, entradas, locales, error>>

NextABC == LlamarClasificarAbc \/ LlamarClasificarAbcClientes

SpecABC == InitABC /\ [][NextABC]_vars

-----------------------------------------------------------------------------
(* preparar_inventario_df *)

\* unidecode.unidecode on one letter: accented letters lose their accent.
UnidecodeLetra(c) ==
    CASE c = "a_acute" -> "a"
      [] c = "e_acute" -> "e"
      [] c = "n_tilde" -> "n"
      [] OTHER -> c

\* unidecode.unidecode(str(x)); a text is a sequence of letters.
Unidecode(txt) == [i \in 1..Len(txt) |-> UnidecodeLetra(txt[i])]

NombreRenombrado(c) ==
    CASE c = "Inventario.DESCRIPCION" -> "DESCRIPCION"
      [] c = "SALDO ACTUAL" -> "SALDO_ACTUAL"
      [] OTHER -> c

\* inv.rename(columns=rename) on one row (a function from column names).
Renombrar(fila) ==
    [c2 \in {NombreRenombrado(c) : c \in DOMAIN fila} |->
        fila[CHOOSE c \in DOMAIN fila : NombreRenombrado(c) = c2]]

FilaInventario(cod, desc, saldo) ==
    [COD_PROD |-> cod] @@ ("Inventario.DESCRIPCION" :> desc) @@ ("SALDO ACTUAL" :> saldo)

ColumnasInventarioCrudas == {"COD_PROD", "Inventario.DESCRIPCION", "SALDO ACTUAL"}

ColumnasInventario == {"COD_PROD", "DESCRIPCION", "SALDO_ACTUAL"}

\* inv2.columns
ColumnasRenombradas(df) ==
    {NombreRenombrado(c) : c \in ColumnasDe(df, ColumnasInventarioCrudas)}

\* The exception preparar_inventario_df raises, if any: line 53 reads the
\* column DESCRIPCION before lines 58-61 look for the missing columns.
ErrorInventario(df) ==
    IF "DESCRIPCION" \notin ColumnasRenombradas(df)
    THEN Excepcion("KeyError", {"DESCRIPCION"})
    ELSE IF ColumnasInventario \ ColumnasRenombradas(df) # {}
         THEN Excepcion("ValueError", ColumnasInventario \ ColumnasRenombradas(df))
         ELSE SinError

\* Lines 46-62 for a table that has the three required columns.
PrepararInventarioDf(df) ==
    [i \in 1..Len(df) |->
        LET inv2 == Renombrar(df[i])
        IN [COD_PROD     |-> inv2.COD_PROD,
            DESCRIPCION  |-> Unidecode(inv2.DESCRIPCION),
            SALDO_ACTUAL |-> FillNaCero(ToNumeric(inv2.SALDO_ACTUAL))]]

-----------------------------------------------------------------------------
(* analizar: pivots and trailing window (lines 126-144) *)

RECURSIVE OrdenarEnteros(_)
OrdenarEnteros(S) ==
    IF S = {} THEN <<>>
    ELSE LET k == CHOOSE x \in S : \A z \in S : x <= z
         IN <<k>> \o OrdenarEnteros(S \ {k})

\* pivot_table(index="COD_PROD", columns="Mes", values=campo, aggfunc="sum").fillna(0)
PivotTable(t, campo) ==
    LET prods == {t[i].COD_PROD : i \in 1..Len(t)}
        meses == {MesIdx(t[i].Mes) : i \in 1..Len(t)}
    IN [index   |-> OrdenarEnteros(prods),
        columns |-> OrdenarEnteros(meses),
        data    |-> [p \in prods |-> [k \in meses |->
                        SumaSeq([i \in 1..Len(t) |->
                            IF t[i].COD_PROD = p /\ MesIdx(t[i].Mes) = k
                            THEN t[i][campo] ELSE 0])]]]

\* ref = pd.Timestamp.today().to_period("M").to_timestamp()
Ref(fecha) == InicioDeMes(fecha)

Last12SinMesEnCurso(fecha) == [i \in 1..12 |-> MesIdx(Ref(fecha)) - 12 + i - 1]

\* pd.date_range(end=ref, periods=12, freq="MS"), as month indexes
Last12(fecha) == [i \in 1..12 |-> MesIdx(Ref(fecha)) - 12 + i]

\* for c in last12: if c not in pivot.columns: pivot[c] = 0
AgregarColumnas(pivot, last12) ==
    LET nuevas == SelectSeq(last12, LAMBDA c : c \notin Rango(pivot.columns))
        todas  == Rango(pivot.columns) \cup Rango(nuevas)
    IN [index   |-> pivot.index,
        columns |-> pivot.columns \o nuevas,
        data    |-> [p \in DOMAIN pivot.data |-> [k \in todas |->
                        IF k \in DOMAIN pivot.data[p] THEN pivot.data[p][k] ELSE 0]]]

\* pivot[last12]: the window columns, in the order of last12
SeleccionarColumnas(pivot, last12) ==
    [p \in DOMAIN pivot.data |-> [i \in 1..Len(last12) |-> pivot.data[p][last12[i]]]]

SinFiltro(matriz) == DOMAIN matriz

ProductosSinTotalNegativo(matriz) == {p \in DOMAIN matriz : SumaSeq(matriz[p]) >= 0}

\* total_ventas_12m[total_ventas_12m > 0].index
ProductosConVentas(matriz) == {p \in DOMAIN matriz : SumaSeq(matriz[p]) > 0}

-----------------------------------------------------------------------------
(* analizar: statistics (lines 146-151) *)

\* Values that are a square root, carried by sign and square; NaN and the
\* infinities of floating point division are kept apart.
Raiz(f) == [clase |-> "finito", signo |-> IF f.n = 0 THEN 0 ELSE 1, cuad |-> f]

NaN == [clase |-> "nan", signo |-> 0, cuad |-> Cero]

Infinito(sg) == [clase |-> "inf", signo |-> sg, cuad |-> Cero]

Signo(k) == IF k > 0 THEN 1 ELSE IF k < 0 THEN -1 ELSE 0

\* mean(axis=1)
Media(v) == Frac(SumaSeq(v), Len(v))

VarianzaPoblacional(v) ==
    LET n == Len(v)
        s == SumaSeq(v)
        q == SumaSeq([i \in 1..n |-> v[i] * v[i]])
    IN Frac(n * q - s * s, n * n)

\* var(ddof=1) = (n * sum(x^2) - sum(x)^2) / (n * (n - 1))
Varianza(v) ==
    LET n == Len(v)
        s == SumaSeq(v)
        q == SumaSeq([i \in 1..n |-> v[i] * v[i]])
    IN Frac(n * q - s * s, n * (n - 1))

\* std(axis=1, ddof=1).fillna(0): NaN for fewer than 2 values
DesvEstandar(v) == IF Len(v) < 2 THEN Raiz(Cero) ELSE Raiz(Varianza(v))

\* desv / prom12 in floating point: 0/0 is NaN, x/0 is infinite
DividirRaiz(r, q) ==
    IF q.n = 0
    THEN (IF r.signo = 0 THEN NaN ELSE Infinito(r.signo))
    ELSE [clase |-> "finito",
          signo |-> r.signo * Signo(q.n),
          cuad  |-> FracDiv(r.cuad, FracMul(q, q))]

FillNaRaiz(x) == IF x.clase = "nan" THEN Raiz(Cero) ELSE x

CoefVariacionSinFillna(desv, prom) == DividirRaiz(desv, prom)

\* cv = (desv / prom12).fillna(0)
CoefVariacion(desv, prom) == FillNaRaiz(DividirRaiz(desv, prom))

\* x <= t for a square-root value x and a fraction t
RaizMenorIgual(x, t) ==
    CASE x.clase = "nan" -> FALSE
      [] x.clase = "inf" -> x.signo < 0
      [] OTHER ->
           IF x.signo >= 0
           THEN t.n >= 0 /\ FracMenorIgual(x.cuad, FracMul(t, t))
           ELSE t.n >= 0 \/ FracMenorIgual(FracMul(t, t), x.cuad)

ClasificarXyzPorDefecto(cv, X, Y) ==
    IF RaizMenorIgual(cv, DEFAULTS.XYZ_UMBRAL_X) THEN "X"
    ELSE IF RaizMenorIgual(cv, DEFAULTS.XYZ_UMBRAL_Y) THEN "Y"
    ELSE "Z"

\* clasificar_xyz_por_cv
ClasificarXyzPorCv(cv, X, Y) ==
    IF RaizMenorIgual(cv, X) THEN "X"
    ELSE IF RaizMenorIgual(cv, Y) THEN "Y"
    ELSE "Z"

-----------------------------------------------------------------------------
(* analizar: inventory policy and final columns *)

DiasVentaXMesRedondeado(dias_semana) == (dias_semana * 433 + 50) \div 100

\* int(VENTA_DIAS_SEMANA * 4.33): truncation towards zero
DiasVentaXMes(dias_semana) ==
    IF dias_semana >= 0 THEN (dias_semana * 433) \div 100
    ELSE -(((-dias_semana) * 433) \div 100)

Max(a, b) == IF a >= b THEN a ELSE b

\* inv_min = (prom12 / max(DIAS_VENTA_X_MES, 1) * LEAD_TIME_DIAS).fillna(0)
InvMin(prom, par) ==
    FracMul(FracDiv(prom, FracDeEntero(Max(DiasVentaXMes(par.VENTA_DIAS_SEMANA), 1))),
            FracDeEntero(par.LEAD_TIME_DIAS))

InvObjSinMinimo(prom, par) == FracMul(prom, par.COBERTURA_MESES)

\* inv_obj = inv_min + prom12 * COBERTURA_MESES
InvObj(prom, par) == FracSuma(InvMin(prom, par), FracMul(prom, par.COBERTURA_MESES))

RECURSIVE Pot10(_)
Pot10(k) == IF k = 0 THEN 1 ELSE 10 * Pot10(k - 1)

\* Series.round(dec): round half to even on the scaled value
Redondear(f, dec) ==
    LET x == f.n * Pot10(dec)
        q == x \div f.d
        r == x - q * f.d
        k == IF 2 * r < f.d THEN q
             ELSE IF 2 * r > f.d THEN q + 1
             ELSE IF q % 2 = 0 THEN q ELSE q + 1
    IN Frac(k, Pot10(dec))

\* .clip(lower=0)
ClipCero(f) == IF f.n < 0 THEN Cero ELSE f

CantAComprarSinClip(obj, saldo) == Redondear(FracResta(obj, saldo), 2)

\* (INV_OBJETIVO - SALDO_ACTUAL).clip(lower=0).round(2)
CantAComprar(obj, saldo) == Redondear(ClipCero(FracResta(obj, saldo)), 2)

EstadoConMargen(saldo, min) ==
    IF FracMenor(saldo, FracSuma(min, Frac(1, 100))) THEN "FALTA INV." ELSE "OK"

EstadoNoEstricto(saldo, min) ==
    IF FracMenorIgual(saldo, min) THEN "FALTA INV." ELSE "OK"

\* np.where(SALDO_ACTUAL < INV_MIN, "FALTA INV.", "OK")
Estado(saldo, min) == IF FracMenor(saldo, min) THEN "FALTA INV." ELSE "OK"

DemandaFreqEstricta(n) ==
    IF n <= 0 THEN "SIN MOV."
    ELSE IF n < 3 THEN "BAJA"
    ELSE IF n < 6 THEN "MEDIA"
    ELSE "ALTA"

\* demanda_freq
DemandaFreq(n) ==
    IF n <= 0 THEN "SIN MOV."
    ELSE IF n <= 3 THEN "BAJA"
    ELSE IF n <= 6 THEN "MEDIA"
    ELSE "ALTA"

Mapa ==
    <<"ene", "feb", "mar", "abr", "may", "jun", "jul", "ago", "sep", "oct", "nov", "dic">>

\* etiqueta_es: Spanish month abbreviation and two-digit year
EtiquetaEs(ts) == [mes |-> Mapa[ts.m], yy |-> ts.y % 100]

\* The value of a rounded square-root column, kept symbolically.
RedondearRaiz(x, dec) == [decimales |-> dec, de |-> x]

-----------------------------------------------------------------------------
(* analizar: the whole computation *)

\* Lines 126-133: a pivot of the prepared sales with the window columns added.
PivotConVentana(vts, campo, fecha) == AgregarColumnas(PivotTable(vts, campo), Last12(fecha))

\* Locals of lines 135-164, keyed by product.
SeriesDe(pq, pi, fecha, par) ==
    LET last12 == Last12(fecha)
        vq     == SeleccionarColumnas(pq, last12)
        vi     == SeleccionarColumnas(pi, last12)
        prods  == ProductosConVentas(vq)
    IN [last12               |-> last12,
        productos_con_ventas |-> OrdenarEnteros(prods),
        ventas_last12        |-> [p \in prods |-> vq[p]],
        prom12               |-> [p \in prods |-> Media(vq[p])],
        desv                 |-> [p \in prods |-> DesvEstandar(vq[p])],
        cv                   |-> [p \in prods |->
                                    CoefVariacion(DesvEstandar(vq[p]), Media(vq[p]))],
        ingresos_12m         |-> [p \in prods |-> SumaSeq(vi[p])],
        inv_min              |-> [p \in prods |-> InvMin(Media(vq[p]), par)],
        inv_obj              |-> [p \in prods |-> InvObj(Media(vq[p]), par)],
        meses_con_venta      |-> [p \in prods |->
                                    ContarPositivos(vq[p])]]

\* ingresos_12m as the (index, values) pairs handed to clasificar_abc.
SerieIngresos(sr) ==
    [i \in 1..Len(sr.productos_con_ventas) |->
        [id    |-> sr.productos_con_ventas[i],
         valor |-> sr.ingresos_12m[sr.productos_con_ventas[i]]]]

FilaAbcDe(dv, p) == dv[CHOOSE r \in 1..Len(dv) : dv[r].COD_PROD = p]

\* Lines 166-217: one row per inventory row of a product with sales.
FilaResumen(fi, sr, dv, par) ==
    LET p    == fi.COD_PROD
        abc  == FilaAbcDe(dv, p)
        xyz  == ClasificarXyzPorCv(sr.cv[p], par.XYZ_UMBRAL_X, par.XYZ_UMBRAL_Y)
    IN [COD_PROD            |-> p,
        DESCRIPCION         |-> fi.DESCRIPCION,
        SALDO_ACTUAL        |-> fi.SALDO_ACTUAL,
        meses               |-> [i \in 1..Len(sr.last12) |->
                                    [etiqueta |-> EtiquetaEs(MesDeIdx(sr.last12[i])),
                                     valor    |-> sr.ventas_last12[p][i]]],
        TOTAL_VENTAS_12M    |-> SumaSeq(sr.ventas_last12[p]),
        PROM_12M            |-> Redondear(sr.prom12[p], 2),
        VALOR_VENTAS_12M    |-> Redondear(FracDeEntero(sr.ingresos_12m[p]), 2),
        DesviacionEstandar  |-> RedondearRaiz(sr.desv[p], 2),
        CV                  |-> RedondearRaiz(sr.cv[p], 4),
        ValorConsumo        |-> Redondear(FracDeEntero(abc.ValorConsumo), 2),
        Participacion       |-> Redondear(abc.Participacion, 4),
        ParticipacionAcum   |-> Redondear(abc.ParticipacionAcum, 4),
        ABC                 |-> abc.ABC,
        XYZ                 |-> xyz,
        ABC_XYZ             |-> <<abc.ABC, xyz>>,
        MESES_CON_VENTA_12M |-> sr.meses_con_venta[p],
        DEMANDA_NIVEL       |-> DemandaFreq(sr.meses_con_venta[p]),
        INV_MIN             |-> Redondear(sr.inv_min[p], 2),
        INV_MAX             |-> Redondear(sr.inv_obj[p], 2),
        INV_OBJETIVO        |-> Redondear(sr.inv_obj[p], 2),
        ESTADO              |-> Estado(fi.SALDO_ACTUAL, sr.inv_min[p]),
        CANT_A_COMPRAR      |-> Redondear(CantAComprar(sr.inv_obj[p], fi.SALDO_ACTUAL), 2)]

\* inv[inv['COD_PROD'].isin(productos_con_ventas)] and the inner merges
FilasInventarioConVentas(tinv, sr) ==
    SelectSeq(tinv, LAMBDA fi : fi.COD_PROD \in Rango(sr.productos_con_ventas))

Resumen(tinv, sr, dv, par) ==
    LET base == FilasInventarioConVentas(tinv, sr)
    IN [r \in 1..Len(base) |-> FilaResumen(base[r], sr, dv, par)]

-----------------------------------------------------------------------------
(* Inputs of analizar *)

FilaVenta(cod, fecha, cant, precio) ==
    [COD_PROD |-> cod, Fecha |-> fecha,
     Cantidad |-> Celda(cant), PRECIO_DESCUENTO |-> Celda(precio)]

PrimerMesPatron == [y |-> 2024, m |-> 12, d |-> 1]

\* Twelve monthly sales of one product, on the 10th of December 2024 to
\* November 2025.
Patron(cod, cants, precio) ==
    [i \in 1..12 |->
        LET mes == MesDeIdx(MesIdx(PrimerMesPatron) + i - 1)
        IN FilaVenta(cod, [d |-> 10, m |-> mes.m, y |-> mes.y], cants[i], precio)]

FechaVieja == [d |-> 15, m |-> 1, y |-> 2024]

FechaDiciembre == [d |-> 5, m |-> 12, y |-> 2024]

FechaNoviembre == [d |-> 3, m |-> 11, y |-> 2025]

TablasBase ==
    { <<>>,
      Patron(101, [i \in 1..12 |-> 30], 1),
      Patron(101, [i \in 1..12 |-> IF i <= 6 THEN 2 ELSE 4], 1),
      << FilaVenta(101, FechaDiciembre, 2, 1),
         FilaVenta(101, FechaDiciembre, -1, 5),
         FilaVenta(102, FechaDiciembre, 1, 5),
         FilaVenta(102, FechaNoviembre, -1, 5) >> }

\* Rows added to a base table: a sale before every window, sales of 1 or 12
\* units in a month that both anchors have in their window, and rows of 0, 1
\* or 12 units in a month that only the later anchor has.
FilasExtra ==
    {FilaVenta(102, FechaVieja, 1, 1)}
    \cup {FilaVenta(c, FechaDiciembre, q, 1) : c \in Productos, q \in {1, 12}}
    \cup {FilaVenta(c, FechaNoviembre, q, 1) : c \in Productos, q \in {0, 1, 12}}

TablasDeVentas == {b \o x : b \in TablasBase, x \in SeqsHasta(FilasExtra, MaxExtra)}

Cafe == <<"c", "a", "f", "e_acute">>

Inventario2(a, b) ==
    <<FilaInventario(101, Cafe, CeldaSaldo(a)), FilaInventario(102, Cafe, CeldaSaldo(b))>>

\* Inventories: both products, one product listed twice, one product missing,
\* an unreadable balance, a balance with three decimals.
TablasDeInventario ==
    { Inventario2(Cero, FracDeEntero(1)),
      Inventario2(Frac(187, 125), Cero),
      <<FilaInventario(101, Cafe, CeldaSaldo(Cero)),
        FilaInventario(101, Cafe, CeldaSaldo(FracDeEntero(1)))>>,
      <<FilaInventario(102, Cafe, CeldaSaldo(Cero))>>,
      <<FilaInventario(102, Cafe, CeldaSaldoMala),
        FilaInventario(101, Cafe, CeldaSaldo(FracDeEntero(6)))>> }

Parametros ==
    { DEFAULTS,
      [LEAD_TIME_DIAS |-> 1, COBERTURA_MESES |-> Cero, VENTA_DIAS_SEMANA |-> 6,
       XYZ_UMBRAL_X |-> Frac(10, 100), XYZ_UMBRAL_Y |-> Frac(20, 100)],
      [LEAD_TIME_DIAS |-> 4, COBERTURA_MESES |-> Frac(1, 2), VENTA_DIAS_SEMANA |-> 1,
       XYZ_UMBRAL_X |-> Frac(30, 100), XYZ_UMBRAL_Y |-> Frac(60, 100)] }

\* A direct call with no selling day in the week (the app asks for 1 to 7).
ParametrosSinDias ==
    [LEAD_TIME_DIAS |-> 2, COBERTURA_MESES |-> Frac(3, 2), VENTA_DIAS_SEMANA |-> 0,
     XYZ_UMBRAL_X |-> Frac(30, 100), XYZ_UMBRAL_Y |-> Frac(60, 100)]

Hoys == { [y |-> 2025, m |-> 11, d |-> 3], [y |-> 2025, m |-> 5, d |-> 20] }

-----------------------------------------------------------------------------
(* Specification of analizar *)

Init ==
    /\ pc = "inicio"
    /\ ventas_df \in TablasDeVentas
    /\ \/ /\ inventario_df \in TablasDeInventario
          /\ hoy \in Hoys
          /\ params \in Parametros
       \/ /\ inventario_df = Inventario2(Cero, FracDeEntero(1))
          /\ hoy = [y |-> 2025, m |-> 11, d |-> 3]
          /\ params = ParametrosSinDias
    /\ ventas = Vacio
    /\ inv = Vacio
    /\ pivot_qty = SinPivot
    /\ pivot_ing = SinPivot
    /\ ingresos_12m = Vacio
    /\ df_valor = Vacio
    /\ clientes_agg = Vacio
    /\ series = SinSeries
    /\ resumen = Vacio
    /\ error = SinError
    /\ umbrales = UmbralesDe(DEFAULTS)
    /\ ventas_12m = Vacio
    /\ SinDetalle

\* Lines 123-124: the first exception of the two preparations.
ErrorAnalizar(vdf, idf) ==
    IF ErrorVentas(vdf) # SinError THEN ErrorVentas(vdf) ELSE ErrorInventario(idf)

\* analizar runs to the end and the product table is built.
Analizar ==
    /\ pc = "inicio"
    /\ ErrorAnalizar(ventas_df, inventario_df) = SinError
    /\ ventas' = PrepararVentasDf(ventas_df)
    /\ inv' = PrepararInventarioDf(inventario_df)
    /\ pivot_qty' = PivotConVentana(ventas', "Cantidad", hoy)
    /\ pivot_ing' = PivotConVentana(ventas', "Ingreso", hoy)
    /\ series' = SeriesDe(pivot_qty', pivot_ing', hoy, params)
    /\ ingresos_12m' = SerieIngresos(series')
    /\ \E f \in OrdenesPosibles(ValoresDe(ingresos_12m')) :
          df_valor' = ClasificarAbc(TablaValor(ingresos_12m'), f)
    /\ resumen' = Resumen(inv', series', df_valor', params)
    /\ pc' = "done"
    /\ UNCHANGED <<detalle, umbrales, ventas_12m, entradas, clientes_agg, error>>

\* analizar stops in preparar_ventas_df or in preparar_inventario_df.
AnalizarFalla ==
    /\ pc = "inicio"
    /\ ErrorAnalizar(ventas_df, inventario_df) # SinError
    /\ error' = ErrorAnalizar(ventas_df, inventario_df)
    /\ pc' = "error"
    /\ UNCHANGED <<detalle, umbrales, ventas_12m, entradas, locales, clientes_agg>>

Next == Analizar \/ AnalizarFalla

Spec == Init /\ [][Next]_vars

-----------------------------------------------------------------------------
(* Specification of the app (app_mejorada.py): thresholds, then analizar *)

PosicionesDeUmbral ==
    {Cero, Frac(10, 100), Frac(30, 100), Frac(60, 100), Frac(98, 100), FracDeEntero(1)}

InitApp ==
    /\ pc = "app"
    /\ umbrales \in [x_th : PosicionesDeUmbral, y_th : PosicionesDeUmbral]
    /\ ventas_df \in {Vacio, Patron(101, [i \in 1..12 |-> IF i <= 6 THEN 2 ELSE 4], 1)}
    /\ inventario_df = Inventario2(Cero, FracDeEntero(1))
    /\ hoy = [y |-> 2025, m |-> 11, d |-> 3]
    /\ params = DEFAULTS
    /\ ventas = Vacio
    /\ inv = Vacio
    /\ pivot_qty = SinPivot
    /\ pivot_ing = SinPivot
    /\ ingresos_12m = Vacio
    /\ df_valor = Vacio
    /\ clientes_agg = Vacio
    /\ series = SinSeries
    /\ resumen = Vacio
    /\ error = SinError
    /\ ventas_12m = Vacio
    /\ SinDetalle

\* Lines 143-145: if y_th <= x_th: st.warning(...); y_th = round(x_th + 0.05, 2)
UmbralYValidado(x_th, y_th) ==
    IF FracMenorIgual(y_th, x_th) THEN Redondear(FracSuma(x_th, Frac(5, 100)), 2) ELSE y_th

\* Lines 130-147: the sliders are read and the thresholds settled.
ValidarUmbrales ==
    /\ pc = "app"
    /\ params' = [params EXCEPT !.XYZ_UMBRAL_X = umbrales.x_th,
                                !.XYZ_UMBRAL_Y = UmbralYValidado(umbrales.x_th, umbrales.y_th)]
    /\ pc' = "validado"
    /\ UNCHANGED <<detalle, umbrales, ventas_12m, ventas_df, inventario_df, hoy, locales, clientes_agg, error>>

\* Lines 152-175: the button is pressed and analizar is called.
Ejecutar ==
    /\ pc = "validado"
    /\ pc' = "inicio"
    /\ UNCHANGED <<detalle, umbrales, ventas_12m, entradas, locales, clientes_agg, error>>

NextApp == ValidarUmbrales \/ Ejecutar \/ Analizar \/ AnalizarFalla

SpecApp == InitApp /\ [][NextApp]_vars

-----------------------------------------------------------------------------
(* analizar_clientes (analisis_cliente.py) *)

\* Line 79: the customer names of the table passed in are rewritten in place.
NormalizarClientes(df, conf) ==
    [i \in 1..Len(df) |-> [df[i] EXCEPT ![conf.NOM_CLIENTE] = Unidecode(@)]]

\* Lines 82-87: the coerced copy with the derived columns Mes and Ingreso.
VentasDeClientes(df, conf) ==
    [i \in 1..Len(df) |->
        LET cant == FillNa0(ToNumeric(df[i][conf.CANTIDAD]))
            prec == FillNa0(ToNumeric(df[i][conf.PRECIO_DESCUENTO]))
            fec  == ToDatetime(df[i][conf.FECHA])
        IN [Mes |-> InicioDeMes(fec), Ingreso |-> cant * prec]
           @@ [df[i] EXCEPT ![conf.CANTIDAD] = cant,
                            ![conf.PRECIO_DESCUENTO] = prec,
                            ![conf.FECHA] = fec]]

\* ref - pd.DateOffset(months=12)
FechaInicio(fecha) == MesDeIdx(MesIdx(Ref(fecha)) - 12)

\* ventas[ventas[fecha] >= fecha_inicio]: a comparison with NaT is False.
Ventas12m(vts, conf, fecha) ==
    SelectSeq(vts, LAMBDA r : /\ r[conf.FECHA] # NaT
                              /\ ~FechaMenor(r[conf.FECHA], FechaInicio(fecha)))

\* Code point of a letter, for the order in which groupby lists its keys.
CodigoLetra(c) ==
    CASE c = "a" -> 97 [] c = "b" -> 98 [] c = "c" -> 99 [] c = "e" -> 101
      [] c = "f" -> 102 [] c = "n" -> 110 [] c = "o" -> 111
      [] c = "a_acute" -> 225 [] c = "e_acute" -> 233 [] c = "n_tilde" -> 241
      [] OTHER -> 0

RECURSIVE NombreMenor(_, _)
NombreMenor(a, b) ==
    IF a = <<>> THEN b # <<>>
    ELSE IF b = <<>> THEN FALSE
    ELSE IF CodigoLetra(Head(a)) # CodigoLetra(Head(b))
         THEN CodigoLetra(Head(a)) < CodigoLetra(Head(b))
         ELSE NombreMenor(Tail(a), Tail(b))

RECURSIVE OrdenarNombres(_)
OrdenarNombres(S) ==
    IF S = {} THEN <<>>
    ELSE LET k == CHOOSE x \in S : \A y \in S \ {x} : NombreMenor(x, y)
         IN <<k>> \o OrdenarNombres(S \ {k})

\* datetime.toordinal(): days since 0001-01-01, that day being 1.
RECURSIVE DiasAntesDelMes(_, _)
DiasAntesDelMes(m, y) ==
    IF m <= 1 THEN 0 ELSE DiasDelMes(m - 1, y) + DiasAntesDelMes(m - 1, y)

Ordinal(ts) ==
    365 * (ts.y - 1) + ((ts.y - 1) \div 4) - ((ts.y - 1) \div 100) + ((ts.y - 1) \div 400)
        + DiasAntesDelMes(ts.m, ts.y) + ts.d

FechaMinima(S) == CHOOSE x \in S : \A y \in S : ~FechaMenor(y, x)

FechaMaxima(S) == CHOOSE x \in S : \A y \in S : ~FechaMenor(x, y)

\* "Mes": "count" in place of "nunique"
MesesContados(filas, conf) == Len(filas)

\* "Mes": "nunique"
MesesDistintos(filas, conf) == Cardinality({filas[i].Mes : i \in 1..Len(filas)})

\* Lines 95-116: one row per customer name, in the order of the names.
AgregarClientes(v12, conf, fecha) ==
    LET nombres == OrdenarNombres({v12[i][conf.NOM_CLIENTE] : i \in 1..Len(v12)})
    IN [k \in 1..Len(nombres) |->
          LET filas  == SelectSeq(v12, LAMBDA r : r[conf.NOM_CLIENTE] = nombres[k])
              valor  == SumaSeq([i \in 1..Len(filas) |-> filas[i].Ingreso])
              meses  == MesesDistintos(filas, conf)
              ultima == FechaMaxima({filas[i][conf.FECHA] : i \in 1..Len(filas)})
          IN (conf.NOM_CLIENTE :> nombres[k]) @@
             [VALOR_TOTAL_12M     |-> valor,
              CANTIDAD_TOTAL_12M  |->
                  SumaSeq([i \in 1..Len(filas) |-> filas[i][conf.CANTIDAD]]),
              PRODUCTOS_DISTINTOS |->
                  Cardinality({filas[i][conf.COD_PROD] : i \in 1..Len(filas)}),
              PRIMERA_COMPRA      |->
                  FechaMinima({filas[i][conf.FECHA] : i \in 1..Len(filas)}),
              ULTIMA_COMPRA       |-> ultima,
              MESES_ACTIVOS       |-> meses,
              TICKET_PROMEDIO     |-> Frac(valor, meses),
              DIAS_DESDE_ULTIMA_COMPRA |-> Ordinal(fecha) - Ordinal(ultima)]]

ValoresDeClientes(agg) == [i \in 1..Len(agg) |-> agg[i].VALOR_TOTAL_12M]

Ana == <<"a_acute", "n", "a">>

Bo == <<"b", "o">>

FilaCliente(nom, fila) == [NOM_CLIENTE |-> nom] @@ fila

\* Dates around the window of an analysis run on 3 November 2025: before it,
\* in November and December 2024, in the current month, in the month after,
\* and a text that is no date.
FechasDeClientes ==
    { [d |-> 20, m |-> 10, y |-> 2024], [d |-> 15, m |-> 11, y |-> 2024],
      FechaDiciembre, FechaNoviembre,
      [d |-> 5, m |-> 12, y |-> 2025], [d |-> 31, m |-> 2, y |-> 2025] }

FilasDeClientes ==
    { FilaCliente(nom, fila) : nom \in {Ana, Bo},
        fila \in UNION { { FilaVenta(101, fec, 2, 3), FilaVenta(102, fec, -1, 5) } :
                         fec \in FechasDeClientes }
              \cup { [FilaVenta(101, FechaNoviembre, 0, 3) EXCEPT !.Cantidad = CeldaMala] } }

TablasDeClientes == SeqsHasta(FilasDeClientes, MaxFilasCliente)

InitClientes ==
    /\ pc = "inicio"
    /\ ventas_df \in TablasDeClientes
    /\ inventario_df = Inventario2(Cero, FracDeEntero(1))
    /\ hoy = [y |-> 2025, m |-> 11, d |-> 3]
    /\ params = DEFAULTS
    /\ ventas = Vacio
    /\ inv = Vacio
    /\ pivot_qty = SinPivot
    /\ pivot_ing = SinPivot
    /\ ingresos_12m = Vacio
    /\ df_valor = Vacio
    /\ clientes_agg = Vacio
    /\ series = SinSeries
    /\ resumen = Vacio
    /\ error = SinError
    /\ umbrales = UmbralesDe(DEFAULTS)
    /\ ventas_12m = Vacio
    /\ SinDetalle

\* Columns of the sales table that analizar_clientes reads (lines 79-87).
ColumnasLeidas(conf) ==
    {conf.NOM_CLIENTE, conf.COD_PROD, conf.CANTIDAD, conf.PRECIO_DESCUENTO, conf.FECHA}

\* The exception analizar_clientes ends with: a column it reads is not in the
\* table, or (line 141) the summary has no column called "NOM_CLIENTE".
ErrorClientes(df, conf) ==
    IF ~(ColumnasLeidas(conf) \subseteq ColumnasDe(df, ColumnasLeidas(conf)))
    THEN Excepcion("KeyError", ColumnasLeidas(conf) \ ColumnasDe(df, ColumnasLeidas(conf)))
    ELSE IF conf.NOM_CLIENTE # "NOM_CLIENTE"
         THEN Excepcion("KeyError", {"NOM_CLIENTE"})
         ELSE SinError

\* analizar_clientes(ventas_df, inventario_df, configuracion) returns.
AnalizarClientes ==
    /\ pc = "inicio"
    /\ ErrorClientes(ventas_df, configuracion) = SinError
    /\ ventas_df' = NormalizarClientes(ventas_df, configuracion)
    /\ ventas' = VentasDeClientes(ventas_df', configuracion)
    /\ ventas_12m' = Ventas12m(ventas', configuracion, hoy)
    /\ \E f \in OrdenesPosibles(ValoresDeClientes(
                  AgregarClientes(ventas_12m', configuracion, hoy))) :
          clientes_agg' = ResumenClientes(
              AgregarClientes(ventas_12m', configuracion, hoy), f)
    /\ pc' = "done"
    /\ UNCHANGED <<inventario_df, hoy, params, inv, pivot_qty, pivot_ing, series,
                   ingresos_12m, df_valor, resumen, error, umbrales, detalle>>

\* analizar_clientes raises; the names were rewritten before unless the
\* customer column itself is missing.
AnalizarClientesFalla ==
    /\ pc = "inicio"
    /\ ErrorClientes(ventas_df, configuracion) # SinError
    /\ ventas_df' = IF configuracion.NOM_CLIENTE \in ColumnasDe(ventas_df, {})
                    THEN NormalizarClientes(ventas_df, configuracion)
                    ELSE ventas_df
    /\ error' = ErrorClientes(ventas_df, configuracion)
    /\ pc' = "error"
    /\ UNCHANGED <<inventario_df, hoy, params, locales, clientes_agg, umbrales,
                   ventas_12m, detalle>>

NextClientes == AnalizarClientes

SpecClientes == InitClientes /\ [][NextClientes]_vars

-----------------------------------------------------------------------------
(* Specification of analizar_clientes under configured column names *)

\* Column mappings a caller can pass: the default one, one that renames the
\* customer column, one that renames the four other columns.
Configuraciones ==
    { ConfiguracionPredeterminada,
      [ConfiguracionPredeterminada EXCEPT !.NOM_CLIENTE = "CLIENTE"],
      [NOM_CLIENTE |-> "NOM_CLIENTE", COD_PROD |-> "SKU", CANTIDAD |-> "CANT",
       PRECIO_DESCUENTO |-> "PRECIO", FECHA |-> "FECHA_DOC"] }

\* The row with its five columns named as conf says.
FilaRenombrada(fila, conf) ==
    (conf.NOM_CLIENTE :> fila.NOM_CLIENTE) @@ (conf.COD_PROD :> fila.COD_PROD) @@
    (conf.CANTIDAD :> fila.Cantidad) @@ (conf.PRECIO_DESCUENTO :> fila.PRECIO_DESCUENTO) @@
    (conf.FECHA :> fila.Fecha)

TablaRenombrada(df, conf) == [i \in 1..Len(df) |-> FilaRenombrada(df[i], conf)]

InitConfiguracion ==
    /\ pc = "inicio"
    /\ configuracion \in Configuraciones
    /\ \E t \in SeqsHasta(FilasDeClientes, MaxFilasConfiguracion) :
          ventas_df = TablaRenombrada(t, configuracion)
    /\ inventario_df = Inventario2(Cero, FracDeEntero(1))
    /\ hoy = [y |-> 2025, m |-> 11, d |-> 3]
    /\ params = DEFAULTS
    /\ ventas = Vacio
    /\ inv = Vacio
    /\ pivot_qty = SinPivot
    /\ pivot_ing = SinPivot
    /\ ingresos_12m = Vacio
    /\ df_valor = Vacio
    /\ clientes_agg = Vacio
    /\ series = SinSeries
    /\ resumen = Vacio
    /\ error = SinError
    /\ umbrales = UmbralesDe(DEFAULTS)
    /\ ventas_12m = Vacio
    /\ cliente = <<>>
    /\ analisis_general = Ninguno
    /\ productos_cliente = Vacio
    /\ alertas = SinAlertas

NextConfiguracion == AnalizarClientes \/ AnalizarClientesFalla

SpecConfiguracion == InitConfiguracion /\ [][NextConfiguracion]_vars

-----------------------------------------------------------------------------
(* identificar_alertas_cliente, src/analisis_cliente.py lines 254-299 *)

\* Missing cells of a merged table: a number, a text, a label.
NumNulo == [n |-> 0, d |-> 0]
TextoNulo == <<"NaN">>
EtiquetaNula == "NaN"

\* a < b between float cells; a comparison with a missing cell is False.
NumMenor(a, b) == a.d # 0 /\ b.d # 0 /\ FracMenor(a, b)

TieneColumnas(tabla, cols) == tabla # <<>> /\ cols \subseteq DOMAIN tabla[1]

CompraMuyFrecuente(fila) == fila.MESES_CON_COMPRA > 6

\* Lines 280 and 293: MESES_CON_COMPRA >= 6.
CompraFrecuente(fila) == fila.MESES_CON_COMPRA >= 6

\* Lines 278-281.
EsCritico(fila) == fila.ESTADO = "FALTA INV." /\ CompraFrecuente(fila)

\* Line 288: the column added to the table that was passed.
ConPromedioMensual(tabla) ==
    IF TieneColumnas(tabla, {"SALDO_ACTUAL", "CANTIDAD_12M"})
    THEN [i \in 1..Len(tabla) |->
            ("PROM_MENSUAL_CLIENTE" :> Frac(tabla[i].CANTIDAD_12M, 12)) @@ tabla[i]]
    ELSE tabla

\* Lines 290-293.
EsRiesgo(fila) ==
    /\ NumMenor(fila.SALDO_ACTUAL, FracMul(fila.PROM_MENSUAL_CLIENTE, FracDeEntero(2)))
    /\ CompraFrecuente(fila)

ProductosCriticos(tabla) ==
    IF TieneColumnas(tabla, {"ESTADO", "MESES_CON_COMPRA"})
    THEN SelectSeq(tabla, EsCritico)
    ELSE <<>>

ProductosRiesgo(tabla) ==
    IF TieneColumnas(tabla, {"SALDO_ACTUAL", "CANTIDAD_12M"})
    THEN SelectSeq(ConPromedioMensual(tabla), EsRiesgo)
    ELSE <<>>

AlertasDe(tabla) ==
    [productos_criticos |-> ProductosCriticos(tabla),
     productos_riesgo |-> ProductosRiesgo(tabla),
     count_criticos |-> Len(ProductosCriticos(tabla)),
     count_riesgo |-> Len(ProductosRiesgo(tabla))]

\* The whole call on the table held in productos_cliente, which always carries
\* MESES_CON_COMPRA and CANTIDAD_12M when it has rows.
IdentificarAlertas ==
    /\ pc = "productos"
    /\ alertas' = AlertasDe(productos_cliente)
    /\ productos_cliente' = ConPromedioMensual(productos_cliente)
    /\ pc' = "alertas"
    /\ UNCHANGED <<entradas, locales, clientes_agg, error, umbrales, ventas_12m,
                   configuracion, cliente, analisis_general>>

-----------------------------------------------------------------------------
(* Specification of identificar_alertas_cliente on product tables *)

\* Rows of a customer's product table, with or without the columns that the
\* merges add.
FilasDeAlertas(conEstado, conSaldo) ==
    { (IF conEstado THEN ("ESTADO" :> e) ELSE <<>>) @@
      (IF conSaldo THEN ("SALDO_ACTUAL" :> sa) ELSE <<>>) @@
      [COD_PROD |-> 0, CANTIDAD_12M |-> c, MESES_CON_COMPRA |-> ms] :
        e \in {"FALTA INV.", "OK", EtiquetaNula},
        sa \in {Cero, FracDeEntero(1), NumNulo},
        c \in {6, 12},
        ms \in {5, 6} }

\* The rows numbered by product code.
ConCodigos(tabla) == [i \in 1..Len(tabla) |-> [tabla[i] EXCEPT !.COD_PROD = 100 + i]]

InitAlertas ==
    /\ pc = "productos"
    /\ \E conEstado \in BOOLEAN, conSaldo \in BOOLEAN :
          \E t \in SeqsHasta(FilasDeAlertas(conEstado, conSaldo), MaxFilasAlertas) :
             productos_cliente = ConCodigos(t)
    /\ ventas_df = Vacio
    /\ inventario_df = Inventario2(Cero, FracDeEntero(1))
    /\ hoy = [y |-> 2025, m |-> 11, d |-> 3]
    /\ params = DEFAULTS
    /\ ventas = Vacio
    /\ inv = Vacio
    /\ pivot_qty = SinPivot
    /\ pivot_ing = SinPivot
    /\ ingresos_12m = Vacio
    /\ df_valor = Vacio
    /\ clientes_agg = Vacio
    /\ series = SinSeries
    /\ resumen = Vacio
    /\ error = SinError
    /\ umbrales = UmbralesDe(DEFAULTS)
    /\ ventas_12m = Vacio
    /\ configuracion = ConfiguracionPredeterminada
    /\ cliente = <<>>
    /\ analisis_general = Ninguno
    /\ alertas = SinAlertas

NextAlertas == IdentificarAlertas

SpecAlertas == InitAlertas /\ [][NextAlertas]_vars

-----------------------------------------------------------------------------
(* analizar_productos_cliente, src/analisis_cliente.py lines 148-252 *)

\* Lines 156-170: the default column names of the sales and inventory tables.
ConfiguracionDeProductos ==
    [NOM_CLIENTE |-> "NOM_CLIENTE", COD_PROD |-> "COD_PROD", CANTIDAD |-> "Cantidad",
     DES_PROVEEDOR |-> "DES_PROVEEDOR", FECHA |-> "Fecha",
     INV_COD_PROD |-> "COD_PROD", INV_DESCRIPCION |-> "Inventario.DESCRIPCION",
     INV_SALDO_ACTUAL |-> "SALDO ACTUAL"]

\* Columns of the table v that analizar_clientes returned as ventas_detalle
\* for the sales table origen: those of origen, with Mes and Ingreso.
ColumnasDelDetalle(v, origen) ==
    IF v # <<>> THEN DOMAIN v[1]
    ELSE ColumnasDe(origen, ColumnasLeidas(ConfiguracionPredeterminada) \cup {"DES_PROVEEDOR"})
            \cup {"Mes", "Ingreso"}

\* The exception of lines 182-186: the first of the product, supplier and
\* customer columns that the sales table does not have.
ErrorProductos(cols, conf) ==
    IF conf.COD_PROD \notin cols THEN Excepcion("KeyError", {conf.COD_PROD})
    ELSE IF conf.DES_PROVEEDOR \notin cols THEN Excepcion("KeyError", {conf.DES_PROVEEDOR})
    ELSE IF conf.NOM_CLIENTE \notin cols THEN Excepcion("KeyError", {conf.NOM_CLIENTE})
    ELSE SinError

\* Lines 182-183, written into the table that was passed. Product codes are
\* unaccented texts, named by numbers here, which unidecode(str(x)) returns as
\* they are; a missing supplier stays missing.
NormalizarProductos(v, conf) ==
    [i \in 1..Len(v) |->
        [v[i] EXCEPT ![conf.DES_PROVEEDOR] = IF @ = TextoNulo THEN @ ELSE Unidecode(@)]]

\* Line 186.
VentasDelCliente(v, cli, conf) == SelectSeq(v, LAMBDA r : r[conf.NOM_CLIENTE] = cli)

ClaveDeGrupoMenor(a, b) == a[1] < b[1] \/ (a[1] = b[1] /\ NombreMenor(a[2], b[2]))

RECURSIVE OrdenarClavesDeGrupo(_)
OrdenarClavesDeGrupo(S) ==
    IF S = {} THEN <<>>
    ELSE LET k == CHOOSE x \in S : \A y \in S \ {x} : ClaveDeGrupoMenor(x, y)
         IN <<k>> \o OrdenarClavesDeGrupo(S \ {k})

\* Line 192: the keys of groupby([cod_prod, des_proveedor]); rows with a
\* missing key are left out of every group.
ClavesDeGrupo(vc, conf) ==
    {<<vc[i][conf.COD_PROD], vc[i][conf.DES_PROVEEDOR]>> :
        i \in {j \in 1..Len(vc) : vc[j][conf.DES_PROVEEDOR] # TextoNulo}}

\* Lines 192-204: one row per (product, supplier), in the order of the keys.
AgregarProductos(vc, conf) ==
    LET claves == OrdenarClavesDeGrupo(ClavesDeGrupo(vc, conf))
    IN [k \in 1..Len(claves) |->
          LET filas == SelectSeq(vc, LAMBDA r : /\ r[conf.COD_PROD] = claves[k][1]
                                               /\ r[conf.DES_PROVEEDOR] = claves[k][2])
          IN [COD_PROD |-> claves[k][1],
              DES_PROVEEDOR |-> claves[k][2],
              CANTIDAD_12M |-> SumaSeq([i \in 1..Len(filas) |-> filas[i][conf.CANTIDAD]]),
              VALOR_12M |-> SumaSeq([i \in 1..Len(filas) |-> filas[i].Ingreso]),
              MESES_CON_COMPRA |-> MesesDistintos(filas, conf)]]

\* tabla[cols]
Proyectar(tabla, cols) == [i \in 1..Len(tabla) |-> [c \in cols |-> tabla[i][c]]]

\* merge(..., how="left") on the column clave: every row of izq with each row
\* of der of the same key, or with missing cells if there is none.
RECURSIVE UnirIzquierda(_, _, _, _)
UnirIzquierda(izq, der, clave, nulos) ==
    IF izq = <<>> THEN <<>>
    ELSE LET pares == SelectSeq(der, LAMBDA r : r[clave] = Head(izq)[clave])
             filas == IF pares = <<>> THEN <<Head(izq) @@ nulos>>
                      ELSE [j \in 1..Len(pares) |-> Head(izq) @@ pares[j]]
         IN filas \o UnirIzquierda(Tail(izq), der, clave, nulos)

SaldoNulo == [num |-> FALSE, v |-> NumNulo]

\* Lines 207-212.
UnirInventario(agg, inventario, conf) ==
    UnirIzquierda(agg,
                  Proyectar(inventario,
                            {conf.INV_COD_PROD, conf.INV_DESCRIPCION, conf.INV_SALDO_ACTUAL}),
                  "COD_PROD",
                  (conf.INV_DESCRIPCION :> TextoNulo) @@ (conf.INV_SALDO_ACTUAL :> SaldoNulo))

\* Line 216: cols_analisis.
ColumnasDeAnalisis ==
    {"COD_PROD", "ABC", "XYZ", "ABC_XYZ", "ESTADO", "CANT_A_COMPRAR", "INV_MIN",
     "INV_OBJETIVO", "PROM_12M"}

NuloDe(c) == IF c \in {"ABC", "XYZ", "ABC_XYZ", "ESTADO"} THEN EtiquetaNula ELSE NumNulo

\* Lines 215-224.
UnirAnalisis(agg, general) ==
    IF general.hay /\ Len(general.tabla) > 0
    THEN LET disponibles == ColumnasDeAnalisis \cap DOMAIN general.tabla[1]
         IN UnirIzquierda(agg, Proyectar(general.tabla, disponibles), "COD_PROD",
                          [c \in disponibles \ {"COD_PROD"} |-> NuloDe(c)])
    ELSE agg

\* Lines 227-249: cols_orden, as a set.
ColumnasDeSalida(cols) ==
    ( {"RANKING", "COD_PROD", "DESCRIPCION", "DES_PROVEEDOR", "CANTIDAD_12M", "VALOR_12M",
       "PARTICIPACION_CLIENTE", "MESES_CON_COMPRA"}
      \cup (IF "ABC" \in cols THEN {"ABC", "XYZ", "ABC_XYZ"} ELSE {})
      \cup (IF "SALDO_ACTUAL" \in cols THEN {"SALDO_ACTUAL"} ELSE {})
      \cup (IF "ESTADO" \in cols
            THEN {"ESTADO", "INV_MIN", "INV_OBJETIVO", "CANT_A_COMPRAR"} ELSE {})
      \cup (IF "PROM_12M" \in cols THEN {"PROM_12M"} ELSE {}) ) \cap cols

\* Lines 186-252: the table returned for the customer cli from the
\* normalised sales table v.
ProductosCliente(cli, v, inventario, general, conf) ==
    LET vc == VentasDelCliente(v, cli, conf)
        unidos == UnirAnalisis(UnirInventario(AgregarProductos(vc, conf), inventario, conf),
                               general)
    IN IF vc = <<>> \/ unidos = <<>> THEN <<>>
       ELSE Proyectar(unidos, ColumnasDeSalida(DOMAIN unidos[1]))

Desconocido == <<"f", "e">>

\* The customers the drill-down is asked for: those of the summary, and one
\* that has no transactions.
ClientesElegibles(agg) == {agg[i].NOM_CLIENTE : i \in 1..Len(agg)} \cup {Desconocido}

\* analizar_productos_cliente(cliente, ventas_detalle, inventario, analisis)
\* returns (src/app_mejorada.py lines 996-1001).
AnalizarProductosCliente ==
    /\ pc = "done"
    /\ ErrorProductos(ColumnasDelDetalle(ventas_12m, ventas_df), ConfiguracionDeProductos)
          = SinError
    /\ \E c \in ClientesElegibles(clientes_agg) : cliente' = c
    /\ ventas_12m' = NormalizarProductos(ventas_12m, ConfiguracionDeProductos)
    /\ productos_cliente' = ProductosCliente(cliente', ventas_12m', inventario_df,
                                             analisis_general, ConfiguracionDeProductos)
    /\ pc' = "productos"
    /\ UNCHANGED <<entradas, locales, clientes_agg, error, umbrales, configuracion,
                   analisis_general, alertas>>

\* analizar_productos_cliente raises at lines 182-186.
ProductosFalla ==
    /\ pc = "done"
    /\ ErrorProductos(ColumnasDelDetalle(ventas_12m, ventas_df), ConfiguracionDeProductos)
          # SinError
    /\ \E c \in ClientesElegibles(clientes_agg) : cliente' = c
    /\ error' = ErrorProductos(ColumnasDelDetalle(ventas_12m, ventas_df),
                               ConfiguracionDeProductos)
    /\ pc' = "error_productos"
    /\ UNCHANGED <<entradas, locales, clientes_agg, umbrales, ventas_12m, configuracion,
                   analisis_general, productos_cliente, alertas>>

-----------------------------------------------------------------------------
(* Specification of the customer drill-down of the application *)

Cano == <<"c", "a", "n_tilde", "o">>

Neo == <<"n", "e", "o">>

\* Sales rows with a supplier: two customers, two products, a supplier with
\* an accent, one without, a missing one, two months of the window.
FilasDeDetalle ==
    { ("DES_PROVEEDOR" :> prov) @@ FilaCliente(nom, fila) :
        nom \in {Ana, Bo}, prov \in {Cano, Neo, TextoNulo},
        fila \in UNION { { FilaVenta(101, fec, 2, 3), FilaVenta(102, fec, -1, 5) } :
                         fec \in {FechaDiciembre, FechaNoviembre} } }

\* Sales tables of an export that has no supplier column.
FilasSinProveedor ==
    { FilaCliente(nom, fila) :
        nom \in {Ana, Bo},
        fila \in { FilaVenta(101, FechaNoviembre, 2, 3), FilaVenta(102, FechaDiciembre, -1, 5) } }

\* A product table as analizar writes it, with product 101 only.
AnalisisEjemplo ==
    << [COD_PROD |-> 101, DESCRIPCION |-> Unidecode(Cafe), ABC |-> "A", XYZ |-> "X",
        ABC_XYZ |-> "AX", ESTADO |-> "FALTA INV.", CANT_A_COMPRAR |-> FracDeEntero(1),
        INV_MIN |-> Frac(1, 2), INV_OBJETIVO |-> FracDeEntero(1), PROM_12M |-> Frac(1, 6),
        SALDO_ACTUAL |-> Cero] >>

\* Raw inventories: both products, product 101 listed twice, product 101
\* missing.
InventariosDeDetalle ==
    { Inventario2(Cero, FracDeEntero(1)),
      <<FilaInventario(101, Cafe, CeldaSaldo(Cero)),
        FilaInventario(101, Cafe, CeldaSaldo(FracDeEntero(1)))>>,
      <<FilaInventario(102, Cafe, CeldaSaldo(Cero))>> }

InitDetalle ==
    /\ pc = "inicio"
    /\ ventas_df \in SeqsHasta(FilasDeDetalle, MaxFilasDetalle)
                      \cup SeqsHasta(FilasSinProveedor, MaxFilasDetalle)
    /\ inventario_df \in InventariosDeDetalle
    /\ analisis_general \in {Ninguno, [hay |-> TRUE, tabla |-> <<>>],
                              [hay |-> TRUE, tabla |-> AnalisisEjemplo]}
    /\ hoy = [y |-> 2025, m |-> 11, d |-> 3]
    /\ params = DEFAULTS
    /\ ventas = Vacio
    /\ inv = Vacio
    /\ pivot_qty = SinPivot
    /\ pivot_ing = SinPivot
    /\ ingresos_12m = Vacio
    /\ df_valor = Vacio
    /\ clientes_agg = Vacio
    /\ series = SinSeries
    /\ resumen = Vacio
    /\ error = SinError
    /\ umbrales = UmbralesDe(DEFAULTS)
    /\ ventas_12m = Vacio
    /\ configuracion = ConfiguracionPredeterminada
    /\ cliente = <<>>
    /\ productos_cliente = Vacio
    /\ alertas = SinAlertas

NextDetalle ==
    \/ AnalizarClientes
    \/ AnalizarProductosCliente
    \/ ProductosFalla
    \/ IdentificarAlertas

SpecDetalle == InitDetalle /\ [][NextDetalle]_vars

-----------------------------------------------------------------------------
(* Specification of the two preparations on tables that lack columns *)

\* The row with only the columns cols.
Recortar(fila, cols) == [c \in cols |-> fila[c]]

TablasDeVentasRecortadas ==
    {<<Recortar(FilaVenta(101, FechaDiciembre, 2, 3), S)>> : S \in SUBSET ColumnasVentas}

TablasDeInventarioRecortadas ==
    {<<Recortar(FilaInventario(101, Cafe, CeldaSaldo(Cero)), S)>> :
        S \in SUBSET ColumnasInventarioCrudas}

InitColumnas ==
    /\ pc = "inicio"
    /\ ventas_df \in TablasDeVentasRecortadas
    /\ inventario_df \in TablasDeInventarioRecortadas
    /\ hoy = NaT
    /\ params = DEFAULTS
    /\ ventas = Vacio
    /\ inv = Vacio
    /\ pivot_qty = SinPivot
    /\ pivot_ing = SinPivot
    /\ ingresos_12m = Vacio
    /\ df_valor = Vacio
    /\ clientes_agg = Vacio
    /\ series = SinSeries
    /\ resumen = Vacio
    /\ error = SinError
    /\ umbrales = UmbralesDe(DEFAULTS)
    /\ ventas_12m = Vacio
    /\ SinDetalle

\* preparar_inventario_df returns the three columns.
PrepararInventarioOk ==
    /\ pc = "inicio"
    /\ ErrorInventario(inventario_df) = SinError
    /\ inv' = PrepararInventarioDf(inventario_df)
    /\ pc' = "inventario_listo"
    /\ UNCHANGED <<detalle, umbrales, ventas_12m, entradas, ventas, pivot_qty, pivot_ing, series, ingresos_12m,
                   df_valor, resumen, clientes_agg, error>>

\* preparar_inventario_df raises.
PrepararInventarioFalla ==
    /\ pc = "inicio"
    /\ ErrorInventario(inventario_df) # SinError
    /\ error' = ErrorInventario(inventario_df)
    /\ pc' = "error_inventario"
    /\ UNCHANGED <<detalle, umbrales, ventas_12m, entradas, locales, clientes_agg>>

NextColumnas ==
    \/ PrepararVentasOk
    \/ PrepararVentasFalla
    \/ PrepararInventarioOk
    \/ PrepararInventarioFalla

SpecColumnas == InitColumnas /\ [][NextColumnas]_vars

-----------------------------------------------------------------------------
(* Claims about preparar_ventas_df *)

RECURSIVE SumaSobre(_, _)
SumaSobre(f, S) ==
    IF S = {} THEN 0
    ELSE LET i == CHOOSE x \in S : TRUE IN f[i] + SumaSobre(f, S \ {i})

FechaLegible(i) == ToDatetime(ventas_df[i].Fecha) # NaT

\* Input rows of product p dated in calendar month (y, m).
FilasDelPar(p, y, m) ==
    {i \in 1..Len(ventas_df) :
        /\ FechaLegible(i)
        /\ ventas_df[i].COD_PROD = p
        /\ ToDatetime(ventas_df[i].Fecha).y = y
        /\ ToDatetime(ventas_df[i].Fecha).m = m}

CantidadCruda(i) == IF ventas_df[i].Cantidad.num THEN ventas_df[i].Cantidad.v ELSE 0

PrecioCrudo(i) ==
    IF ventas_df[i].PRECIO_DESCUENTO.num THEN ventas_df[i].PRECIO_DESCUENTO.v ELSE 0

ParesCrudos ==
    {<<ventas_df[i].COD_PROD, ToDatetime(ventas_df[i].Fecha).y,
       ToDatetime(ventas_df[i].Fecha).m>> : i \in {j \in 1..Len(ventas_df) : FechaLegible(j)}}

\* C3: preparar_ventas_df returns exactly one row per (product, calendar month)
\* pair occurring among the rows with a parseable date; the row's Mes is the
\* first day of that month, its Cantidad the sum of the quantities and its
\* Ingreso the sum of quantity x price over all input rows of the pair.
C3_UnaFilaPorPar ==
    pc = "ventas_listas" =>
        /\ \A k \in ParesCrudos :
              LET filas == {r \in 1..Len(ventas) :
                              /\ ventas[r].COD_PROD = k[1]
                              /\ ventas[r].Mes.y = k[2] /\ ventas[r].Mes.m = k[3]}
              IN /\ Cardinality(filas) = 1
                 /\ \A r \in filas :
                       /\ ventas[r].Mes.d = 1
                       /\ ventas[r].Cantidad =
                            SumaSobre([i \in 1..Len(ventas_df) |-> CantidadCruda(i)],
                                      FilasDelPar(k[1], k[2], k[3]))
                       /\ ventas[r].Ingreso =
                            SumaSobre([i \in 1..Len(ventas_df) |->
                                          CantidadCruda(i) * PrecioCrudo(i)],
                                      FilasDelPar(k[1], k[2], k[3]))
        /\ \A r \in 1..Len(ventas) :
              <<ventas[r].COD_PROD, ventas[r].Mes.y, ventas[r].Mes.m>> \in ParesCrudos

\* Two input rows of one (product, month) pair, on different days, with
\* different quantities, were summed into a single output row.
C3_Testigo ==
    /\ pc = "ventas_listas"
    /\ Len(ventas_df) = 2
    /\ Len(ventas) = 1
    /\ ventas_df[1].Fecha # ventas_df[2].Fecha
    /\ CantidadCruda(1) = 2 /\ CantidadCruda(2) = -1
    /\ ventas[1].Cantidad = 1
    /\ ventas[1].Ingreso = 3

-----------------------------------------------------------------------------
(* Claims about clasificar_abc and clasificar_abc_clientes *)

\* The two result tables under common column names.
FilasProductos ==
    [r \in 1..Len(df_valor) |->
        [id |-> df_valor[r].COD_PROD, valor |-> df_valor[r].ValorConsumo,
         part |-> df_valor[r].Participacion, acum |-> df_valor[r].ParticipacionAcum,
         abc |-> df_valor[r].ABC]]

FilasClientes ==
    [r \in 1..Len(clientes_agg) |->
        [id |-> clientes_agg[r].NOM_CLIENTE, valor |-> clientes_agg[r].VALOR_TOTAL_12M,
         part |-> clientes_agg[r].PARTICIPACION, acum |-> clientes_agg[r].PARTICIPACION_ACUM,
         abc |-> clientes_agg[r].ABC_CLIENTE]]

HayAbcProductos == pc \in {"abc", "abc_ambos"}

HayAbcClientes == pc \in {"abc_clientes", "abc_ambos"}

TotalEntrada == SumaSeq(ValoresDe(ingresos_12m))

UnaFilaPorEntidad(T) ==
    /\ Len(T) = Len(ingresos_12m)
    /\ \A e \in 1..Len(ingresos_12m) :
          Cardinality({r \in 1..Len(T) :
                          T[r].id = ingresos_12m[e].id /\ T[r].valor = ingresos_12m[e].valor}) = 1

ParticipacionesCorrectas(T) ==
    /\ TotalEntrada > 0 =>
          /\ \A r \in 1..Len(T) : T[r].part.n * TotalEntrada = T[r].valor * T[r].part.d
          /\ SumaFracs([r \in 1..Len(T) |-> T[r].part]) = FracDeEntero(1)
    /\ TotalEntrada = 0 => \A r \in 1..Len(T) : T[r].part.n = 0

\* C4: both classifications return one row per input entity (none dropped,
\* none duplicated); when the total value is > 0 each share is value / total
\* and the shares sum to 1; when the total is 0 every share is 0.
C4_ParticipacionesSuman ==
    /\ HayAbcProductos =>
          UnaFilaPorEntidad(FilasProductos) /\ ParticipacionesCorrectas(FilasProductos)
    /\ HayAbcClientes =>
          UnaFilaPorEntidad(FilasClientes) /\ ParticipacionesCorrectas(FilasClientes)

\* Three entities given out of order, total > 0, classified by both functions.
C4_Testigo ==
    /\ pc = "abc_ambos"
    /\ ValoresDe(ingresos_12m) = <<5, 80, 15>>
    /\ df_valor[1].Participacion = Frac(4, 5)
    /\ clientes_agg[3].PARTICIPACION = Frac(1, 20)

Descendente(T) == \A r \in 1..(Len(T) - 1) : T[r].valor >= T[r + 1].valor

AcumNoDecrece(T) ==
    \A r \in 1..(Len(T) - 1) : FracMenorIgual(T[r].acum, T[r + 1].acum)

AcumDecreceSoloEnNegativos(T) ==
    \A r \in 1..(Len(T) - 1) :
        FracMenor(T[r + 1].acum, T[r].acum) <=> (TotalEntrada > 0 /\ T[r + 1].valor < 0)

\* C5 (as amended): the rows are in descending order of value, and the
\* cumulative share decreases from one row to the next exactly at a row of
\* negative value while the total is > 0; it never decreases when no value is
\* negative.
C5_OrdenYAcumulado ==
    /\ HayAbcProductos =>
          Descendente(FilasProductos) /\ AcumDecreceSoloEnNegativos(FilasProductos)
    /\ HayAbcClientes =>
          Descendente(FilasClientes) /\ AcumDecreceSoloEnNegativos(FilasClientes)

\* C5 (as stated): descending order and a cumulative share that never
\* decreases, for every value table.
C5_Original ==
    /\ HayAbcProductos => Descendente(FilasProductos) /\ AcumNoDecrece(FilasProductos)
    /\ HayAbcClientes => Descendente(FilasClientes) /\ AcumNoDecrece(FilasClientes)

\* Non-negative values given in ascending order: sorted, cumulative share rising.
C5_Testigo ==
    /\ pc = "abc_ambos"
    /\ ValoresDe(ingresos_12m) = <<0, 4, 15>>
    /\ df_valor[1].ValorConsumo = 15 /\ df_valor[3].ValorConsumo = 0
    /\ FracMenor(clientes_agg[1].PARTICIPACION_ACUM, clientes_agg[2].PARTICIPACION_ACUM)
    /\ clientes_agg[2].PARTICIPACION_ACUM = clientes_agg[3].PARTICIPACION_ACUM

\* Sum of the values of the rows ranked at or above row r.
ValorAcumulado(T, r) == SumaSeq([j \in 1..r |-> T[j].valor])

EtiquetaPorAcumulado(T) ==
    \A r \in 1..Len(T) :
        LET c == IF TotalEntrada > 0 THEN ValorAcumulado(T, r) ELSE 0
            t == IF TotalEntrada > 0 THEN TotalEntrada ELSE 1
        IN /\ T[r].abc \in {"A", "B", "C"}
           /\ T[r].abc = "A" <=> 100 * c <= 80 * t
           /\ T[r].abc = "B" <=> (80 * t < 100 * c /\ 100 * c <= 95 * t)
           /\ T[r].abc = "C" <=> 100 * c > 95 * t

-----------------------------------------------------------------------------
(* Claims about analizar: rows and month columns *)

\* The calendar month k months before the anchor month, for k in 0..11.
MesAtras(k) ==
    IF hoy.m > k THEN [y |-> hoy.y, m |-> hoy.m - k]
    ELSE [y |-> hoy.y - 1, m |-> hoy.m - k + 12]

CantidadDe(p, mes) ==
    SumaSobre([i \in 1..Len(ventas_df) |-> CantidadCruda(i)], FilasDelPar(p, mes.y, mes.m))

\* Quantity of product p in the input rows dated k months before the anchor.
CantidadDelMes(p, k) == CantidadDe(p, MesAtras(k))

MesCrudo(i) == [y |-> ToDatetime(ventas_df[i].Fecha).y, m |-> ToDatetime(ventas_df[i].Fecha).m]

\* Input rows of product p dated inside the trailing 12-month window.
FilasEnVentana(p) ==
    {i \in 1..Len(ventas_df) :
        /\ FechaLegible(i)
        /\ ventas_df[i].COD_PROD = p
        /\ \E k \in 0..11 : MesCrudo(i) = MesAtras(k)}

CantidadEnVentana(p) ==
    SumaSobre([i \in 1..Len(ventas_df) |-> CantidadCruda(i)], FilasEnVentana(p))

FilasDelProducto(p) == {r \in 1..Len(resumen) : resumen[r].COD_PROD = p}

FilasDeInventario(p) == {r \in 1..Len(inventario_df) : inventario_df[r].COD_PROD = p}

\* C1 as stated: the product table has exactly one row for each product with
\* at least one sales row dated inside the window and no row for any other.
C1_Original ==
    pc = "done" =>
        \A p \in Productos :
            Cardinality(FilasDelProducto(p)) = IF FilasEnVentana(p) # {} THEN 1 ELSE 0

\* C1: the product table has one row for every inventory row whose product has
\* a positive total quantity inside the trailing 12-month window, in the order
\* of the inventory, and no other row.
C1_FilasConVentaPositiva ==
    pc = "done" =>
        /\ \A p \in Productos :
              Cardinality(FilasDelProducto(p)) =
                  IF CantidadEnVentana(p) > 0 THEN Cardinality(FilasDeInventario(p)) ELSE 0
        /\ \A r \in 1..Len(resumen) : resumen[r].COD_PROD \in Productos
        /\ \A r1, r2 \in 1..Len(resumen) :
              r1 < r2 =>
                  \E i1, i2 \in 1..Len(inventario_df) :
                      /\ i1 < i2
                      /\ inventario_df[i1].COD_PROD = resumen[r1].COD_PROD
                      /\ inventario_df[i2].COD_PROD = resumen[r2].COD_PROD

\* A product listed twice in the inventory has two rows, and a product whose
\* only rows inside the window add up to zero has none.
C1_Testigo ==
    /\ pc = "done"
    /\ Cardinality(FilasDelProducto(101)) = 2
    /\ FilasEnVentana(102) # {}
    /\ CantidadEnVentana(102) = 0
    /\ FilasDelProducto(102) = {}

\* C2: every product row has exactly 12 month columns, labelled with the 12
\* consecutive calendar months that end at the anchor month, oldest first; each
\* holds the product's quantity of that month, 0 when it has no sales in it.
C2_DoceMeses ==
    pc = "done" =>
        \A r \in 1..Len(resumen) :
            /\ Len(resumen[r].meses) = 12
            /\ \A i \in 1..12 :
                  /\ resumen[r].meses[i].etiqueta =
                         [mes |-> Mapa[MesAtras(12 - i).m], yy |-> MesAtras(12 - i).y % 100]
                  /\ resumen[r].meses[i].valor = CantidadDelMes(resumen[r].COD_PROD, 12 - i)

\* Anchor May 2025 with sales up to November 2025: the row has its sales in
\* the last column, zeros in the months without sales, and the sales history
\* holds months outside the window.
C2_Testigo ==
    /\ pc = "done"
    /\ hoy.m = 5
    /\ \E r \in 1..Len(resumen) :
          /\ resumen[r].meses[12].valor > 0
          /\ resumen[r].meses[1].valor = 0
          /\ resumen[r].meses[1].etiqueta = [mes |-> "jun", yy |-> 24]
    /\ \E i \in 1..Len(ventas_df) : ventas_df[i].Fecha = FechaNoviembre

-----------------------------------------------------------------------------
(* Claims about analizar: variability *)

\* The 12 window quantities of product p, oldest month first.
CantidadesDeVentana(p) == [i \in 1..12 |-> CantidadDelMes(p, 12 - i)]

\* Sum over the values xs of (n x - q)^2, where q is their total and n their
\* number: n^2 times the sum of squared deviations from the mean.
DesviosCuadrados(xs, q) ==
    SumaSeq([i \in 1..Len(xs) |-> (Len(xs) * xs[i] - q) * (Len(xs) * xs[i] - q)])

\* The square of (sample standard deviation / mean) of values with total q # 0.
CvCuadradoCon(xs, q) == Frac(DesviosCuadrados(xs, q), (Len(xs) - 1) * q * q)

CvCuadradoDe(xs) == CvCuadradoCon(xs, SumaSeq(xs))

\* The same for the 12 window quantities of product p.
CvCuadrado(p) == CvCuadradoDe(CantidadesDeVentana(p))

\* cv <= t for a CV that is not negative and has square c2, and a threshold t >= 0
CvNoSupera(c2, t) == c2.n * t.d * t.d <= t.n * t.n * c2.d

\* The CV that reaches the XYZ classification for row r.
CvDeFila(r) == resumen[r].CV.de

CvComoSeAfirma(cv, q, c2) ==
    /\ cv.clase = "finito"
    /\ cv.signo >= 0
    /\ IF q > 0 THEN cv.cuad = c2 ELSE cv.cuad = Cero /\ cv.signo = 0

\* C7: the CV of every product row is finite and not negative; it is the sample
\* standard deviation of the 12 window quantities divided by their mean when
\* the mean is positive, and 0 otherwise.
C7_CvFinito ==
    pc = "done" =>
        \A r \in 1..Len(resumen) :
            /\ resumen[r].CV.decimales = 4
            /\ CvComoSeAfirma(CvDeFila(r), CantidadEnVentana(resumen[r].COD_PROD),
                              CvCuadrado(resumen[r].COD_PROD))

\* One row has a positive CV, and a product whose window quantities are not
\* constant but add up to zero (its quotient would be infinite) has no row.
C7_Testigo ==
    /\ pc = "done"
    /\ \E r \in 1..Len(resumen) : CvDeFila(r).signo = 1 /\ CvDeFila(r).cuad.n > 0
    /\ \E p \in Productos :
          /\ CantidadEnVentana(p) = 0
          /\ \E k \in 0..11 : CantidadDelMes(p, k) # 0
          /\ FilasDeInventario(p) # {}
          /\ FilasDelProducto(p) = {}

XyzComoSeAfirma(xyz, bajoX, bajoY) ==
    /\ xyz \in {"X", "Y", "Z"}
    /\ xyz = "X" <=> bajoX
    /\ xyz = "Y" <=> (~bajoX /\ bajoY)
    /\ xyz = "Z" <=> ~bajoY

XyzDeFila(r, c2) ==
    XyzComoSeAfirma(resumen[r].XYZ, CvNoSupera(c2, params.XYZ_UMBRAL_X),
                    CvNoSupera(c2, params.XYZ_UMBRAL_Y))

\* C8: with the thresholds X < Y handed to analizar, a row is labelled X iff
\* its CV <= X, Y iff X < CV <= Y, and Z iff CV > Y.
C8_XyzPorUmbrales ==
    pc = "done" =>
        \A r \in 1..Len(resumen) :
            /\ XyzDeFila(r, CvCuadrado(resumen[r].COD_PROD))
            /\ resumen[r].ABC_XYZ = <<resumen[r].ABC, resumen[r].XYZ>>

\* Thresholds 0.10 and 0.20 from the caller: a row is Z although its CV is
\* between the default thresholds 0.30 and 0.60.
C8_Testigo ==
    /\ pc = "done"
    /\ params.XYZ_UMBRAL_Y = Frac(20, 100)
    /\ \E r \in 1..Len(resumen) :
          /\ resumen[r].XYZ = "Z"
          /\ XyzComoSeAfirma("Y", CvNoSupera(CvCuadrado(resumen[r].COD_PROD), Frac(30, 100)),
                             CvNoSupera(CvCuadrado(resumen[r].COD_PROD), Frac(60, 100)))

-----------------------------------------------------------------------------
(* Claims about analizar: inventory policy *)

\* Selling days per month used as divisor.
DiasDivisor == Max(DiasVentaXMes(params.VENTA_DIAS_SEMANA), 1)

\* Minimum stock: window total / 12 / selling days per month x lead time.
InvMinDe(p) == Frac(CantidadEnVentana(p) * params.LEAD_TIME_DIAS, 12 * DiasDivisor)

\* Target stock: minimum stock + window total / 12 x coverage months.
InvObjDe(p) ==
    Frac(CantidadEnVentana(p) *
             (params.LEAD_TIME_DIAS * params.COBERTURA_MESES.d
                + DiasDivisor * params.COBERTURA_MESES.n),
         12 * DiasDivisor * params.COBERTURA_MESES.d)

\* a < b and a <= b on fractions, by cross multiplication
Menor(a, b) == a.n * b.d < b.n * a.d

NoMayor(a, b) == a.n * b.d <= b.n * a.d

\* C9 as stated, for a reading obj of INV_OBJETIVO, a balance and a quantity.
C9_ComoSeAfirma(obj, saldo, cant) ==
    /\ cant.n >= 0
    /\ cant.n = 0 <=> NoMayor(obj, saldo)
    /\ Menor(saldo, obj) => cant = Redondear(FracResta(obj, saldo), 2) /\ cant.n > 0

\* C9 as stated: CANT_A_COMPRAR is never negative and is 0 exactly when
\* SALDO_ACTUAL >= INV_OBJETIVO, otherwise INV_OBJETIVO - SALDO_ACTUAL rounded
\* to 2 decimals and positive; INV_OBJETIVO read as the computed target or as
\* the 2-decimal target of the row.
C9_Original ==
    pc = "done" =>
        \A r \in 1..Len(resumen) :
            \/ C9_ComoSeAfirma(InvObjDe(resumen[r].COD_PROD), resumen[r].SALDO_ACTUAL,
                               resumen[r].CANT_A_COMPRAR)
            \/ C9_ComoSeAfirma(resumen[r].INV_OBJETIVO, resumen[r].SALDO_ACTUAL,
                               resumen[r].CANT_A_COMPRAR)

Positivo(f) == IF f.n > 0 THEN f ELSE Cero

\* cant is bruto rounded to 2 decimals: a whole number of hundredths at most
\* 0.005 away from it.
EsRedondeoDe(cant, bruto) ==
    /\ 100 % cant.d = 0
    /\ NoMayor(FracResta(cant, bruto), Frac(1, 200))
    /\ NoMayor(FracResta(bruto, cant), Frac(1, 200))

C9_Enmendada(falta, cant) ==
    /\ cant.n >= 0
    /\ EsRedondeoDe(cant, Positivo(falta))
    /\ falta.n <= 0 => cant.n = 0
    /\ cant.n = 0 <=> NoMayor(falta, Frac(1, 200))

Faltante(r) == FracResta(InvObjDe(resumen[r].COD_PROD), resumen[r].SALDO_ACTUAL)

\* C9: CANT_A_COMPRAR is never negative and is max(0, target - SALDO_ACTUAL)
\* rounded to 2 decimals; it is 0 when SALDO_ACTUAL >= target and also when the
\* shortfall is at most 0.005, and positive for every larger shortfall.
C9_CantidadRedondeada ==
    pc = "done" =>
        \A r \in 1..Len(resumen) : C9_Enmendada(Faltante(r), resumen[r].CANT_A_COMPRAR)

\* A row is short of its target by a positive amount and is told to buy
\* nothing.
C9_Testigo ==
    /\ pc = "done"
    /\ \E r \in 1..Len(resumen) :
          /\ resumen[r].CANT_A_COMPRAR.n = 0
          /\ Faltante(r).n > 0
          /\ Menor(resumen[r].SALDO_ACTUAL, resumen[r].INV_OBJETIVO)

\* C10: ESTADO is FALTA INV. iff SALDO_ACTUAL < minimum stock, strictly, and OK
\* in every other case; there is no third value.
C10_EstadoEstricto ==
    pc = "done" =>
        \A r \in 1..Len(resumen) :
            /\ resumen[r].ESTADO \in {"FALTA INV.", "OK"}
            /\ resumen[r].ESTADO = "FALTA INV." <=>
                   Menor(resumen[r].SALDO_ACTUAL, InvMinDe(resumen[r].COD_PROD))

\* A positive balance equal to the minimum stock is OK, next to a row that is
\* understocked.
C10_Testigo ==
    /\ pc = "done"
    /\ \E r \in 1..Len(resumen) :
          /\ resumen[r].SALDO_ACTUAL.n > 0
          /\ resumen[r].SALDO_ACTUAL = InvMinDe(resumen[r].COD_PROD)
          /\ resumen[r].ESTADO = "OK"
    /\ \E r \in 1..Len(resumen) : resumen[r].ESTADO = "FALTA INV."

-----------------------------------------------------------------------------
(* Claims about analizar: stock levels *)

\* d x 4.33 truncated to an integer, for d >= 0.
DiasTruncados(d) == CHOOSE k \in 0..(5 * d) : 100 * k <= 433 * d /\ 433 * d < 100 * (k + 1)

DivisorAfirmado == IF DiasTruncados(params.VENTA_DIAS_SEMANA) >= 1
                   THEN DiasTruncados(params.VENTA_DIAS_SEMANA) ELSE 1

PoliticaComoSeAfirma(fila, min, obj, prom, div) ==
    /\ div >= 1
    /\ min = FracMul(FracDiv(prom, FracDeEntero(div)), FracDeEntero(params.LEAD_TIME_DIAS))
    /\ obj = FracSuma(min, FracMul(prom, params.COBERTURA_MESES))
    /\ fila.PROM_12M = Redondear(prom, 2)
    /\ fila.INV_MIN = Redondear(min, 2)
    /\ fila.INV_OBJETIVO = Redondear(obj, 2)
    /\ fila.INV_MAX = fila.INV_OBJETIVO

\* C11: INV_MIN = PROM_12M / max(trunc(d x 4.33), 1) x L with nothing added,
\* INV_OBJETIVO = INV_MAX = INV_MIN + PROM_12M x C, PROM_12M the window total
\* divided by 12; the divisor is at least 1. The row shows these values
\* rounded to 2 decimals.
C11_NivelesDeInventario ==
    pc = "done" =>
        \A r \in 1..Len(resumen) :
            PoliticaComoSeAfirma(resumen[r], series.inv_min[resumen[r].COD_PROD],
                                 series.inv_obj[resumen[r].COD_PROD],
                                 Frac(CantidadEnVentana(resumen[r].COD_PROD), 12),
                                 DivisorAfirmado)

\* Zero selling days per week: the divisor is 1, the minimum stock is positive
\* and the target exceeds it by 1.5 monthly means.
C11_Testigo ==
    /\ pc = "done"
    /\ params.VENTA_DIAS_SEMANA = 0
    /\ DiasTruncados(0) = 0
    /\ \E r \in 1..Len(resumen) :
          /\ resumen[r].INV_MIN.n > 0
          /\ Menor(resumen[r].INV_MIN, resumen[r].INV_OBJETIVO)

\* x is v to one decimal: less than 0.05 away from it.
Aproximadamente(x, v) ==
    /\ Menor(FracResta(x, v), Frac(5, 100))
    /\ Menor(FracResta(v, x), Frac(5, 100))

\* Row r is the scenario's product: balance 0 and 30 units in each window month.
EsEscenario12(r) ==
    /\ params.LEAD_TIME_DIAS = 4
    /\ params.VENTA_DIAS_SEMANA = 6
    /\ params.COBERTURA_MESES = FracDeEntero(1)
    /\ resumen[r].SALDO_ACTUAL = Cero
    /\ \A i \in 1..12 : resumen[r].meses[i].valor = 30

\* C12: balance 0, 30 units in each of the 12 window months, lead time 4, 6
\* selling days per week, coverage 1: 26 selling days per month, minimum stock
\* 30 x 4/26, about 4.6, target and purchase about 34.6, status FALTA INV.
C12_Escenario ==
    pc = "done" =>
        \A r \in 1..Len(resumen) :
            EsEscenario12(r) =>
                /\ resumen[r].INV_MIN = Redondear(Frac(30 * 4, 26), 2)
                /\ Aproximadamente(resumen[r].INV_MIN, Frac(46, 10))
                /\ Aproximadamente(resumen[r].INV_OBJETIVO, Frac(346, 10))
                /\ Aproximadamente(resumen[r].CANT_A_COMPRAR, Frac(346, 10))
                /\ resumen[r].ESTADO = "FALTA INV."

-----------------------------------------------------------------------------
(* Claims about analizar: demand frequency *)

MesesNoNulos(p) == Cardinality({k \in 0..11 : CantidadDelMes(p, k) # 0})

MesesPositivos(p) == Cardinality({k \in 0..11 : CantidadDelMes(p, k) > 0})

NivelComoSeAfirma(fila, n) ==
    /\ fila.MESES_CON_VENTA_12M = n
    /\ fila.DEMANDA_NIVEL = "SIN MOV." <=> n = 0
    /\ fila.DEMANDA_NIVEL = "BAJA" <=> n \in 1..3
    /\ fila.DEMANDA_NIVEL = "MEDIA" <=> n \in 4..6
    /\ fila.DEMANDA_NIVEL = "ALTA" <=> n \in 7..12

\* C13 as stated: MESES_CON_VENTA_12M is the number of window months whose
\* quantity is nonzero, and DEMANDA_NIVEL is SIN MOV. for 0, BAJA for 1-3,
\* MEDIA for 4-6 and ALTA for 7-12.
C13_Original ==
    pc = "done" =>
        \A r \in 1..Len(resumen) :
            NivelComoSeAfirma(resumen[r], MesesNoNulos(resumen[r].COD_PROD))

\* C13: MESES_CON_VENTA_12M is the number of window months whose quantity is
\* greater than 0 (a month with a negative net quantity is not counted), and
\* DEMANDA_NIVEL is SIN MOV. for 0, BAJA for 1-3, MEDIA for 4-6, ALTA for 7-12.
C13_MesesConVenta ==
    pc = "done" =>
        \A r \in 1..Len(resumen) :
            NivelComoSeAfirma(resumen[r], MesesPositivos(resumen[r].COD_PROD))

\* A row with one month of sales and one month of negative net quantity
\* counts one month and is BAJA.
C13_Testigo ==
    /\ pc = "done"
    /\ \E r \in 1..Len(resumen) :
          /\ resumen[r].MESES_CON_VENTA_12M = 1
          /\ MesesNoNulos(resumen[r].COD_PROD) = 2
          /\ resumen[r].DEMANDA_NIVEL = "BAJA"

\* A row with six months of sales is MEDIA.
C13_TestigoNiveles ==
    /\ pc = "done"
    /\ \E r \in 1..Len(resumen) :
          resumen[r].MESES_CON_VENTA_12M = 6 /\ resumen[r].DEMANDA_NIVEL = "MEDIA"

-----------------------------------------------------------------------------
(* Claims about preparar_ventas_df: unparseable cells *)

FilasLegibles == {i \in 1..Len(ventas_df) : FechaLegible(i)}

TotalDe(t, campo) == SumaSeq([i \in 1..Len(t) |-> t[i][campo]])

\* C14: a row with an unparseable date is left out of every aggregate and every
\* row with a parseable date is aggregated; when no row has a parseable date
\* the call fails with ValueError and returns no table.
C14_FechasIlegibles ==
    /\ pc = "ventas_listas" =>
          /\ FilasLegibles # {}
          /\ \A i \in FilasLegibles :
                \E r \in 1..Len(ventas) :
                    /\ ventas[r].COD_PROD = ventas_df[i].COD_PROD
                    /\ ventas[r].Mes.y = ToDatetime(ventas_df[i].Fecha).y
                    /\ ventas[r].Mes.m = ToDatetime(ventas_df[i].Fecha).m
          /\ \A r \in 1..Len(ventas) : ventas[r].Mes # NaT
          /\ TotalDe(ventas, "Cantidad") =
                 SumaSobre([i \in 1..Len(ventas_df) |-> CantidadCruda(i)], FilasLegibles)
          /\ TotalDe(ventas, "Ingreso") =
                 SumaSobre([i \in 1..Len(ventas_df) |-> CantidadCruda(i) * PrecioCrudo(i)],
                           FilasLegibles)
    /\ pc = "error" => FilasLegibles = {} /\ error.tipo = "ValueError" /\ ventas = Vacio
    /\ pc # "inicio" => (pc = "error" <=> FilasLegibles = {})

\* A table with one unparseable and one parseable date, both with a quantity:
\* the call returns one row holding only the parseable row's quantity.
C14_Testigo ==
    /\ pc = "ventas_listas"
    /\ Len(ventas_df) = 2
    /\ Cardinality(FilasLegibles) = 1
    /\ \A i \in 1..2 : CantidadCruda(i) = 2
    /\ Len(ventas) = 1
    /\ ventas[1].Cantidad = 2

CeldaIlegible(i) == ~ventas_df[i].Cantidad.num \/ ~ventas_df[i].PRECIO_DESCUENTO.num

\* What row i adds to the quantity and to the revenue of its pair.
AporteCantidad(i) == IF ventas_df[i].Cantidad.num THEN ventas_df[i].Cantidad.v ELSE 0

AporteIngreso(i) ==
    IF ventas_df[i].Cantidad.num /\ ventas_df[i].PRECIO_DESCUENTO.num
    THEN ventas_df[i].Cantidad.v * ventas_df[i].PRECIO_DESCUENTO.v
    ELSE 0

\* The legible rows of the same product and month as row i.
ParDe(i) ==
    FilasDelPar(ventas_df[i].COD_PROD, ToDatetime(ventas_df[i].Fecha).y,
                ToDatetime(ventas_df[i].Fecha).m)

FilaAgregada(r, filas) ==
    /\ ventas[r].Cantidad = SumaSobre([j \in 1..Len(ventas_df) |-> AporteCantidad(j)], filas)
    /\ ventas[r].Ingreso = SumaSobre([j \in 1..Len(ventas_df) |-> AporteIngreso(j)], filas)

\* C15: an unparseable quantity or price never makes the call fail; the row is
\* aggregated with the field as 0: it adds 0 to the revenue and its quantity
\* (0 when the quantity is the unparseable field) to its pair.
C15_CeldasIlegibles ==
    /\ pc = "error" => FilasLegibles = {}
    /\ pc = "ventas_listas" =>
          \A i \in FilasLegibles :
              CeldaIlegible(i) =>
                  \E r \in 1..Len(ventas) :
                      /\ ventas[r].COD_PROD = ventas_df[i].COD_PROD
                      /\ ventas[r].Mes = InicioDeMes(ToDatetime(ventas_df[i].Fecha))
                      /\ FilaAgregada(r, ParDe(i))

\* Two rows of one pair, the first without a readable quantity and the second
\* without a readable price: the pair has the second row's quantity and no
\* revenue.
C15_Testigo ==
    /\ pc = "ventas_listas"
    /\ Len(ventas_df) = 2
    /\ ~ventas_df[1].Cantidad.num /\ ventas_df[1].PRECIO_DESCUENTO.num
    /\ ventas_df[2].Cantidad.num /\ ~ventas_df[2].PRECIO_DESCUENTO.num
    /\ Len(ventas) = 1
    /\ ventas[1].Cantidad = ventas_df[2].Cantidad.v
    /\ ventas[1].Ingreso = 0

-----------------------------------------------------------------------------
(* Claims about missing columns *)

FaltanEnVentas == ColumnasVentas \ DOMAIN ventas_df[1]

\* Required columns of the inventory, under the names of the input table.
FaltanEnInventario == ColumnasInventarioCrudas \ DOMAIN inventario_df[1]

LlamadaAVentas == pc \in {"ventas_listas", "error"}

LlamadaAInventario == pc \in {"inventario_listo", "error_inventario"}

\* C16: a sales or inventory table that lacks a required column makes its
\* preparation fail with ValueError, the message naming the missing columns;
\* no other kind of error is raised and no table is returned.
C16_ColumnasFaltantes ==
    /\ (LlamadaAVentas /\ FaltanEnVentas # {}) =>
          /\ pc = "error"
          /\ error.tipo = "ValueError"
          /\ FaltanEnVentas \subseteq error.nombra
          /\ ventas = Vacio
    /\ (LlamadaAInventario /\ FaltanEnInventario # {}) =>
          /\ pc = "error_inventario"
          /\ error.tipo = "ValueError"
          /\ {NombreRenombrado(c) : c \in FaltanEnInventario} \subseteq error.nombra
          /\ inv = Vacio

-----------------------------------------------------------------------------
(* Claims about the thresholds of the app *)

UmbralesInvalidos == FracMenorIgual(umbrales.y_th, umbrales.x_th)

\* C17: a configuration whose Y threshold is not greater than its X threshold
\* is rejected with a configuration error: nothing is analysed with it and the
\* thresholds are not replaced by other values.
C17_ConfiguracionRechazada ==
    UmbralesInvalidos =>
        /\ pc \in {"app", "error"}
        /\ pc = "error" => error.tipo = "ConfigurationError"
        /\ params.XYZ_UMBRAL_Y \in {DEFAULTS.XYZ_UMBRAL_Y, umbrales.y_th}
        /\ resumen = Vacio

-----------------------------------------------------------------------------
(* Claims about analizar_clientes *)

\* The text f is a date of one of the twelve calendar months that end with
\* the month of the run.
EnDoceMeses(f) ==
    LET ts == ToDatetime(f)
    IN ts # NaT /\ MesIdx(ts) \in Rango(Last12(hoy))

\* Input rows of customer nom dated in those twelve months.
FilasDeDoceMeses(nom) ==
    {i \in 1..Len(ventas_df) :
        Unidecode(ventas_df[i].NOM_CLIENTE) = nom /\ EnDoceMeses(ventas_df[i].Fecha)}

IngresoCrudo == [i \in 1..Len(ventas_df) |-> CantidadCruda(i) * PrecioCrudo(i)]

CantidadesCrudas == [i \in 1..Len(ventas_df) |-> CantidadCruda(i)]

\* C18: analizar_clientes aggregates exactly the transactions dated in the
\* twelve calendar months that end with the current month: every customer's
\* totals are the sums over those transactions, the retained detail is those
\* transactions, and MESES_ACTIVOS is at most 12.
C18_VentanaDeDoceMeses ==
    pc = "done" =>
        /\ Len(ventas_12m) =
               Cardinality({i \in 1..Len(ventas_df) : EnDoceMeses(ventas_df[i].Fecha)})
        /\ \A i \in 1..Len(ventas_df) :
               EnDoceMeses(ventas_df[i].Fecha) =>
                   \E k \in 1..Len(clientes_agg) :
                       clientes_agg[k].NOM_CLIENTE = Unidecode(ventas_df[i].NOM_CLIENTE)
        /\ \A k \in 1..Len(clientes_agg) :
               LET S == FilasDeDoceMeses(clientes_agg[k].NOM_CLIENTE)
               IN /\ clientes_agg[k].MESES_ACTIVOS <= 12
                  /\ clientes_agg[k].CANTIDAD_TOTAL_12M = SumaSobre(CantidadesCrudas, S)
                  /\ clientes_agg[k].VALOR_TOTAL_12M = SumaSobre(IngresoCrudo, S)

\* The input row i is one the analysis retains: its date is legible and not
\* earlier than the first day of the month twelve months before the run's.
Retenida(i) ==
    LET ts == ToDatetime(ventas_df[i].Fecha)
    IN ts # NaT /\ MesIdx(ts) >= MesIdx(hoy) - 12

FilasRetenidas(nom) ==
    {i \in 1..Len(ventas_df) : Unidecode(ventas_df[i].NOM_CLIENTE) = nom /\ Retenida(i)}

MesesDeFilas(S) == {MesIdx(ToDatetime(ventas_df[i].Fecha)) : i \in S}

\* C19: the table has one row per customer with a retained transaction; in
\* it MESES_ACTIVOS is the number of distinct calendar months of the
\* customer's retained transactions (at least 1), VALOR_TOTAL_12M and
\* CANTIDAD_TOTAL_12M are the sums of revenue and of quantity over them,
\* PRODUCTOS_DISTINTOS is the number of distinct products among them, and
\* TICKET_PROMEDIO is VALOR_TOTAL_12M / MESES_ACTIVOS.
C19_AgregadosPorCliente ==
    pc = "done" =>
        /\ {clientes_agg[k].NOM_CLIENTE : k \in 1..Len(clientes_agg)} =
               {Unidecode(ventas_df[i].NOM_CLIENTE) :
                    i \in {j \in 1..Len(ventas_df) : Retenida(j)}}
        /\ \A k, l \in 1..Len(clientes_agg) :
               clientes_agg[k].NOM_CLIENTE = clientes_agg[l].NOM_CLIENTE => k = l
        /\ \A k \in 1..Len(clientes_agg) :
               LET r == clientes_agg[k]
                   S == FilasRetenidas(r.NOM_CLIENTE)
               IN /\ r.MESES_ACTIVOS = Cardinality(MesesDeFilas(S))
                  /\ r.MESES_ACTIVOS >= 1
                  /\ r.VALOR_TOTAL_12M = SumaSobre(IngresoCrudo, S)
                  /\ r.CANTIDAD_TOTAL_12M = SumaSobre(CantidadesCrudas, S)
                  /\ r.PRODUCTOS_DISTINTOS =
                         Cardinality({ventas_df[i].COD_PROD : i \in S})
                  /\ r.TICKET_PROMEDIO.d * r.VALOR_TOTAL_12M =
                         r.TICKET_PROMEDIO.n * r.MESES_ACTIVOS

\* A customer whose two transactions fall in two distinct months: two active
\* months and a ticket of half the revenue.
C19_Testigo ==
    /\ pc = "done"
    /\ \E k \in 1..Len(clientes_agg) :
          /\ Cardinality(FilasRetenidas(clientes_agg[k].NOM_CLIENTE)) = 2
          /\ clientes_agg[k].MESES_ACTIVOS = 2
          /\ clientes_agg[k].VALOR_TOTAL_12M = 12
          /\ clientes_agg[k].TICKET_PROMEDIO = FracDeEntero(6)

-----------------------------------------------------------------------------
(* Claim about the two classifications side by side *)

\* C20: on the same values clasificar_abc_clientes and clasificar_abc give the
\* same descending order of values, the same shares, cumulative shares and
\* labels, and RANKING numbers the customers 1..n in that order, the value
\* never increasing with the rank.
C20_MismaClasificacion ==
    /\ pc \in {"abc_clientes", "abc_ambos"} =>
          /\ Len(clientes_agg) = Len(ingresos_12m)
          /\ \A i \in 1..Len(clientes_agg) :
                /\ clientes_agg[i].RANKING = i
                /\ i < Len(clientes_agg) =>
                       clientes_agg[i].VALOR_TOTAL_12M >= clientes_agg[i + 1].VALOR_TOTAL_12M
    /\ pc = "abc_ambos" =>
          /\ Len(clientes_agg) = Len(df_valor)
          /\ \A i \in 1..Len(clientes_agg) :
                /\ clientes_agg[i].VALOR_TOTAL_12M = df_valor[i].ValorConsumo
                /\ clientes_agg[i].PARTICIPACION = df_valor[i].Participacion
                /\ clientes_agg[i].PARTICIPACION_ACUM = df_valor[i].ParticipacionAcum
                /\ clientes_agg[i].ABC_CLIENTE = df_valor[i].ABC

\* Both functions have classified the values 15, 80, 5: shares 0.80, 0.15 and
\* 0.05, labels A, B, C, ranks 1, 2, 3.
C20_Testigo ==
    /\ pc = "abc_ambos"
    /\ ValoresDe(ingresos_12m) = <<15, 80, 5>>
    /\ [i \in 1..3 |-> clientes_agg[i].ABC_CLIENTE] = <<"A", "B", "C">>
    /\ [i \in 1..3 |-> df_valor[i].ABC] = <<"A", "B", "C">>
    /\ clientes_agg[3].RANKING = 3
    /\ clientes_agg[1].VALOR_TOTAL_12M = 80

-----------------------------------------------------------------------------
(* Claim about the labels at the two ends of the ranking *)

TotalDeValores == SumaSeq(ValoresDe(ingresos_12m))

\* The largest of the values fed to the classification.
ValorMayor ==
    CHOOSE v \in Rango(ValoresDe(ingresos_12m)) :
        \A w \in Rango(ValoresDe(ingresos_12m)) : w <= v

\* C26: when the total value is > 0, the last entity of the ranking is labelled
\* C in both classifications, and the first one is labelled A only if its own
\* share is at most 0.80.
C26_ExtremosDelRanking ==
    TotalDeValores > 0 =>
        /\ pc \in {"abc", "abc_ambos"} =>
              /\ df_valor[Len(df_valor)].ABC = "C"
              /\ df_valor[1].ABC = "A" => ValorMayor * 100 <= 80 * TotalDeValores
        /\ pc \in {"abc_clientes", "abc_ambos"} =>
              /\ clientes_agg[Len(clientes_agg)].ABC_CLIENTE = "C"
              /\ clientes_agg[1].ABC_CLIENTE = "A" =>
                     ValorMayor * 100 <= 80 * TotalDeValores

\* A single entity of positive value is labelled C by both functions: a
\* classification without any A.
C26_Testigo ==
    /\ pc = "abc_ambos"
    /\ ValoresDe(ingresos_12m) = <<5>>
    /\ df_valor[1].ABC = "C"
    /\ clientes_agg[1].ABC_CLIENTE = "C"
    /\ \A i \in 1..Len(df_valor) : df_valor[i].ABC # "A"

-----------------------------------------------------------------------------
(* Claims about the rows of analizar as they are reported *)

\* n/d < a/b for fractions that are not negative, by comparing integer parts
\* and then the reciprocals of the remainders (no product can overflow).
RECURSIVE MenorSinProducto(_, _, _, _)
MenorSinProducto(n, d, a, b) ==
    IF n \div d # a \div b THEN n \div d < a \div b
    ELSE IF a % b = 0 THEN FALSE
    ELSE IF n % d = 0 THEN TRUE
    ELSE MenorSinProducto(b, a % b, d, n % d)

\* round(x, 4) <= t for a square-root value x and a threshold t of at most 4
\* decimals: x lies below t + 0.00005, or on it when the tie rounds down.
RaizRedondeadaNoSupera(x, t) ==
    LET lim == FracSuma(t, Frac(1, 20000))
    IN CASE x.clase = "nan" -> FALSE
         [] x.clase = "inf" -> x.signo < 0
         [] OTHER ->
              \/ x.signo < 0
              \/ MenorSinProducto(x.cuad.n, x.cuad.d,
                                  FracMul(lim, lim).n, FracMul(lim, lim).d)
              \/ /\ x.cuad = FracMul(lim, lim)
                 /\ ((t.n * 10000) \div t.d) % 2 = 0

XyzDeLoReportado(cv, X, Y) ==
    IF RaizRedondeadaNoSupera(cv, X) THEN "X"
    ELSE IF RaizRedondeadaNoSupera(cv, Y) THEN "Y"
    ELSE "Z"

EstadoCoherente(fila) ==
    fila.ESTADO = "FALTA INV." <=> Menor(fila.SALDO_ACTUAL, fila.INV_MIN)

CantidadCoherente(fila) ==
    fila.CANT_A_COMPRAR =
        Redondear(Positivo(FracResta(fila.INV_OBJETIVO, fila.SALDO_ACTUAL)), 2)

XyzCoherente(fila, par) ==
    fila.XYZ = XyzDeLoReportado(fila.CV.de, par.XYZ_UMBRAL_X, par.XYZ_UMBRAL_Y)

AbcCoherente(fila) ==
    fila.ABC = (IF NoMayor(fila.ParticipacionAcum, Frac(80, 100)) THEN "A"
                ELSE IF NoMayor(fila.ParticipacionAcum, Frac(95, 100)) THEN "B"
                ELSE "C")

DistanciaNoMayor(a, b, tol) ==
    /\ NoMayor(FracResta(a, b), tol)
    /\ NoMayor(FracResta(b, a), tol)

\* The value x lies above the threshold t by at most 0.00005.
ApenasSobre(x, t) == Menor(t, x) /\ NoMayor(x, FracSuma(t, Frac(1, 20000)))

FilaCoherenteSinRedondear(fila, invMin, invObj, cv, acum, par) ==
    /\ fila.ESTADO = "FALTA INV." <=> Menor(fila.SALDO_ACTUAL, invMin)
    /\ EsRedondeoDe(fila.INV_MIN, invMin)
    /\ EstadoCoherente(fila)
           \/ DistanciaNoMayor(fila.SALDO_ACTUAL, fila.INV_MIN, Frac(1, 200))
    /\ EsRedondeoDe(fila.CANT_A_COMPRAR, Positivo(FracResta(invObj, fila.SALDO_ACTUAL)))
    /\ EsRedondeoDe(fila.INV_OBJETIVO, invObj)
    /\ DistanciaNoMayor(fila.CANT_A_COMPRAR,
           Redondear(Positivo(FracResta(fila.INV_OBJETIVO, fila.SALDO_ACTUAL)), 2),
           Frac(1, 100))
    /\ XyzComoSeAfirma(fila.XYZ, RaizMenorIgual(cv, par.XYZ_UMBRAL_X),
                       RaizMenorIgual(cv, par.XYZ_UMBRAL_Y))
    /\ XyzCoherente(fila, par)
           \/ \E t \in {par.XYZ_UMBRAL_X, par.XYZ_UMBRAL_Y} :
                  ~RaizMenorIgual(cv, t) /\ RaizRedondeadaNoSupera(cv, t)
    /\ fila.ABC = (IF NoMayor(acum, Frac(80, 100)) THEN "A"
                   ELSE IF NoMayor(acum, Frac(95, 100)) THEN "B"
                   ELSE "C")
    /\ AbcCoherente(fila)
           \/ ApenasSobre(acum, Frac(80, 100)) \/ ApenasSobre(acum, Frac(95, 100))

C28_Original ==
    pc = "done" =>
        \A r \in 1..Len(resumen) :
            /\ resumen[r].INV_MIN.n >= 0
            /\ NoMayor(resumen[r].INV_MIN, resumen[r].INV_OBJETIVO)
            /\ resumen[r].ESTADO = "FALTA INV." => resumen[r].CANT_A_COMPRAR.n > 0

FaltaConCompra(fila, invMin, invObj) ==
    /\ invMin.n >= 0
    /\ NoMayor(invMin, invObj)
    /\ fila.INV_MIN.n >= 0
    /\ NoMayor(fila.INV_MIN, fila.INV_OBJETIVO)
    /\ fila.CANT_A_COMPRAR.n >= 0
    /\ fila.ESTADO = "FALTA INV." =>
           /\ Menor(fila.SALDO_ACTUAL, invObj)
           /\ Menor(Frac(1, 200), FracResta(invObj, fila.SALDO_ACTUAL)) =>
                  fila.CANT_A_COMPRAR.n > 0

\* C28 (as amended): with a lead time >= 0 and a coverage >= 0,
\* 0 <= INV_MIN <= INV_OBJETIVO holds in every row, before and after rounding;
\* a row whose ESTADO is 'FALTA INV.' is short of its target by a positive
\* amount, and its CANT_A_COMPRAR is > 0 whenever that amount exceeds 0.005 (a
\* smaller one rounds to 0.00).
C28_FaltaConCompra ==
    pc = "done" =>
        \A r \in 1..Len(resumen) :
            FaltaConCompra(resumen[r], series.inv_min[resumen[r].COD_PROD],
                           series.inv_obj[resumen[r].COD_PROD])

\* An understocked row told to buy nothing: 'FALTA INV.' with
\* CANT_A_COMPRAR = 0.00 and a positive target.
C28_Testigo ==
    /\ pc = "done"
    /\ \E r \in 1..Len(resumen) :
          /\ resumen[r].ESTADO = "FALTA INV."
          /\ resumen[r].CANT_A_COMPRAR = Cero
          /\ series.inv_obj[resumen[r].COD_PROD].n > 0

-----------------------------------------------------------------------------
(* Claim about the configured column names *)

\* The table with its five columns under the default names.
ConNombresPredeterminados(df, conf) ==
    [i \in 1..Len(df) |->
        [NOM_CLIENTE |-> df[i][conf.NOM_CLIENTE], COD_PROD |-> df[i][conf.COD_PROD],
         Cantidad |-> df[i][conf.CANTIDAD],
         PRECIO_DESCUENTO |-> df[i][conf.PRECIO_DESCUENTO], Fecha |-> df[i][conf.FECHA]]]

\* The aggregate analizar_clientes computes for the table df under the default
\* names.
AgregadoPredeterminado(df) ==
    AgregarClientes(
        Ventas12m(VentasDeClientes(NormalizarClientes(df, ConfiguracionPredeterminada),
                                   ConfiguracionPredeterminada),
                  ConfiguracionPredeterminada, hoy),
        ConfiguracionPredeterminada, hoy)

\* C25: whatever names the configuration gives to the customer, product,
\* quantity, price and date columns, analizar_clientes ends without error and
\* returns the customer table it returns for the same data under the default
\* names.
C25_NombresConfigurados ==
    pc \in {"done", "error"} =>
        /\ pc = "done"
        /\ error = SinError
        /\ \E f \in OrdenesPosibles(ValoresDeClientes(AgregadoPredeterminado(
                        ConNombresPredeterminados(ventas_df, configuracion)))) :
              clientes_agg = ResumenClientes(AgregadoPredeterminado(
                        ConNombresPredeterminados(ventas_df, configuracion)), f)

-----------------------------------------------------------------------------
(* Claim about the customer alerts *)

EnLista(lista, cod) == \E j \in 1..Len(lista) : lista[j].COD_PROD = cod

VecesEnLista(lista, cod) == Cardinality({j \in 1..Len(lista) : lista[j].COD_PROD = cod})

\* The product's ESTADO is FALTA INV. and it was bought in six months or more.
DebeSerCritico(fila) ==
    /\ "ESTADO" \in DOMAIN fila
    /\ fila.ESTADO = "FALTA INV."
    /\ fila.MESES_CON_COMPRA >= 6

\* The product's balance is known and below a sixth of the twelve-month
\* quantity, and it was bought in six months or more.
DebeSerRiesgo(fila) ==
    /\ "SALDO_ACTUAL" \in DOMAIN fila
    /\ fila.SALDO_ACTUAL.d # 0
    /\ 6 * fila.SALDO_ACTUAL.n < fila.CANTIDAD_12M * fila.SALDO_ACTUAL.d
    /\ fila.MESES_CON_COMPRA >= 6

-----------------------------------------------------------------------------
(* Claims about the customer drill-down *)

\* The inventory rows of the product cod.
EnInventario(cod) == {j \in 1..Len(inventario_df) : inventario_df[j].COD_PROD = cod}

\* The rows of the product table of the product cod.
EnAnalisis(cod) ==
    {j \in 1..Len(analisis_general.tabla) : analisis_general.tabla[j].COD_PROD = cod}

\* The row carries the description and the balance of the inventory, empty
\* if the product is not there, the balance under the name SALDO_ACTUAL that
\* identificar_alertas_cliente reads.
LlevaInventario(fila) ==
    /\ {"DESCRIPCION", "SALDO_ACTUAL"} \subseteq DOMAIN fila
    /\ IF EnInventario(fila.COD_PROD) = {}
       THEN fila.DESCRIPCION = TextoNulo /\ fila.SALDO_ACTUAL = SaldoNulo
       ELSE \E j \in EnInventario(fila.COD_PROD) :
               /\ fila.DESCRIPCION = inventario_df[j]["Inventario.DESCRIPCION"]
               /\ fila.SALDO_ACTUAL = inventario_df[j]["SALDO ACTUAL"]

\* The row carries the classification, the status and the quantity to buy of
\* the product table, empty if the product is not there.
LlevaAnalisis(fila) ==
    /\ {"ABC", "XYZ", "ESTADO", "CANT_A_COMPRAR"} \subseteq DOMAIN fila
    /\ IF EnAnalisis(fila.COD_PROD) = {}
       THEN /\ fila.ABC = EtiquetaNula
            /\ fila.XYZ = EtiquetaNula
            /\ fila.ESTADO = EtiquetaNula
            /\ fila.CANT_A_COMPRAR = NumNulo
       ELSE \E j \in EnAnalisis(fila.COD_PROD) :
               /\ fila.ABC = analisis_general.tabla[j].ABC
               /\ fila.XYZ = analisis_general.tabla[j].XYZ
               /\ fila.ESTADO = analisis_general.tabla[j].ESTADO
               /\ fila.CANT_A_COMPRAR = analisis_general.tabla[j].CANT_A_COMPRAR

HayAnalisis == analisis_general.hay /\ Len(analisis_general.tabla) > 0

\* The rows of the detail table that belong to the customer asked for.
FilasDelCliente == {i \in 1..Len(ventas_12m) : ventas_12m[i].NOM_CLIENTE = cliente}

\* C22: the table analizar_productos_cliente returns under the default
\* configuration has every product the customer bought, each row with the
\* description and the balance of the inventory in the column SALDO_ACTUAL
\* that the at-risk alert reads, and with the classification, status and
\* quantity to buy of the product table when there is one; where a product is
\* in neither table the row is there with those fields empty.
C22_ProductosConInventarioYAnalisis ==
    pc = "productos" =>
        /\ \A i \in FilasDelCliente : EnLista(productos_cliente, ventas_12m[i].COD_PROD)
        /\ \A k \in 1..Len(productos_cliente) :
              /\ LlevaInventario(productos_cliente[k])
              /\ HayAnalisis => LlevaAnalisis(productos_cliente[k])

\* C23: the drill-down never ends with an error: without a supplier column in
\* the sales table, and without a product table (None or empty), it returns
\* the customer's product rows, without the classification columns in the
\* second case, and for a customer without transactions it returns an empty
\* table.
C23_DatosOpcionales ==
    pc \in {"productos", "error_productos"} =>
        /\ pc = "productos"
        /\ error = SinError
        /\ FilasDelCliente = {} => productos_cliente = <<>>
        /\ ~HayAnalisis =>
              \A k \in 1..Len(productos_cliente) :
                 DOMAIN productos_cliente[k] \cap ColumnasDeAnalisis = {"COD_PROD"}

\* C24: no call changes a table it was given: the sales and inventory tables
\* of analizar_clientes, the detail, inventory and product tables of
\* analizar_productos_cliente, the product table of
\* identificar_alertas_cliente.
C24_EntradasIntactas ==
    [][ /\ ventas_df' = ventas_df
        /\ inventario_df' = inventario_df
        /\ analisis_general' = analisis_general
        /\ pc = "done" => ventas_12m' = ventas_12m
        /\ pc = "productos" =>
              /\ Len(productos_cliente') = Len(productos_cliente)
              /\ \A k \in 1..Len(productos_cliente) :
                    DOMAIN productos_cliente'[k] = DOMAIN productos_cliente[k] ]_vars

\* The row of the summary for the customer asked for.
FilaDelResumen == CHOOSE r \in Rango(clientes_agg) : r.NOM_CLIENTE = cliente

\* C30: for every customer of the summary, the drill-down rows add up to the
\* customer's CANTIDAD_TOTAL_12M and VALOR_TOTAL_12M, and every (product,
\* supplier) pair the customer bought is in exactly one row.
C30_TotalesConservados ==
    (pc = "productos" /\ \E r \in Rango(clientes_agg) : r.NOM_CLIENTE = cliente) =>
        /\ SumaSeq([k \in 1..Len(productos_cliente) |-> productos_cliente[k].CANTIDAD_12M])
              = FilaDelResumen.CANTIDAD_TOTAL_12M
        /\ SumaSeq([k \in 1..Len(productos_cliente) |-> productos_cliente[k].VALOR_12M])
              = FilaDelResumen.VALOR_TOTAL_12M
        /\ \A i \in FilasDelCliente :
              Cardinality({k \in 1..Len(productos_cliente) :
                              /\ productos_cliente[k].COD_PROD = ventas_12m[i].COD_PROD
                              /\ productos_cliente[k].DES_PROVEEDOR
                                    = ventas_12m[i].DES_PROVEEDOR}) = 1

====
